---- MODULE Spec2Model ----
(***************************************************************************)
(* Document state tracking of vscode-gitlens: DocumentStateTracker (the    *)
(* store, src/src/documentStateTracker.ts) and TrackedDocument (the        *)
(* per-document state machine, src/unnamed/part_002).                      *)
(*                                                                         *)
(* Scheduling: one handler runs at a time.  An async function runs up to   *)
(* its next await in one step; the awaited repository query completes in a *)
(* later step, in any order.  Debounced handlers are timers on a clock     *)
(* that advances by Quantum; handlers take no time.  A setImmediate        *)
(* callback runs before the clock advances again, but host notifications   *)
(* and timers that are already due may run before it.                      *)
(***************************************************************************)
EXTENDS Integers, Sequences, FiniteSets, TLC

VARIABLES
    activeEditor,   \* window.activeTextEditor: an editor or NoEditor
    isDirty,        \* TextDocument.isDirty of every host document
    ctx,            \* the host's command context flags
    byDoc,          \* _documentMap entries keyed by the TextDocument
    byKey,          \* _documentMap entries keyed by the normalized path
    objs,           \* every TrackedDocument constructed so far
    upd,            \* TrackedDocument.update calls suspended at an await
    actDeb,         \* debounce(onActiveTextEditorChanged, 0)
    chgDeb,         \* debounce(onTextDocumentChanged, 50)
    dirtyDeb,       \* _dirtyStateChangedDebounced (250)
    imm,            \* setImmediate callbacks not yet run
    out,            \* what the last step published (events, context writes)
    last,           \* the last step: its operation and what it acted on
    lastBlame,      \* history: blameable of the last blame event per document
    cleanHist,      \* history: time since the last clean notification, whether
                    \* a becoming-dirty callback ran since, whether one
                    \* ever cancelled a pending clean publish, and the dirty
                    \* value last published per document
    flap,           \* history: the dirty flips of the active document since
                    \* it became active, and what was published for them
    budget,         \* the number of host notifications and collaborator calls
                    \* still to come
    gct,            \* GitContextTracker: its context repository, the
                    \* updateContext and updateRemotes calls suspended at an
                    \* await, and the two remote context flags it writes
    clc             \* CurrentLineController: its fields, its debounced
                    \* updateBlame, the calls suspended at an await, and what
                    \* the last step showed

vars == <<activeEditor, isDirty, ctx, byDoc, byKey, objs, upd, actDeb, chgDeb,
          dirtyDeb, imm, out, last, lastBlame, cleanHist, flap, budget, gct, clc>>

-----------------------------------------------------------------------------
(* Bounds of the model *)

MaxEvents == 3

MaxObjs == 2

MaxInflight == 2

-----------------------------------------------------------------------------
(* Delays of the debounced handlers, in milliseconds *)

ActiveDelay == 0

ChangeDelay == 50

DirtyDelay == 250

Quantum == ChangeDelay

-----------------------------------------------------------------------------
(* The host's documents and editors *)

None == "none"

Docs == {"d1", "d2", "d3"}

\* document.uri.fsPath, as a sequence of characters
fsPath(d) ==
    CASE d = "d1" -> <<"/", "A">>
      [] d = "d2" -> <<"\\", "a">>
      [] OTHER    -> <<"/", "b">>

\* document.uri.scheme: d2 is a revision of the file of d1, opened by a diff
scheme(d) == IF d = "d2" THEN "git" ELSE "file"

\* whether GitUri.fromUri finds a revision pin (sha) in the document's uri
hasSha(d) == d = "d2"

\* window.activeTextEditor === undefined
NoEditor == [id |-> 0, document |-> None]

\* the text editors: editors 1 and 2 show the same document (a split)
Editors == {
    [id |-> 1, document |-> "d1"],
    [id |-> 2, document |-> "d1"],
    [id |-> 3, document |-> "d3"],
    [id |-> 4, document |-> "d2"] }

toLowerCase(p) ==
    [i \in DOMAIN p |-> CASE p[i] = "A" -> "a" [] p[i] = "B" -> "b" [] OTHER -> p[i]]

normalizePath(p) ==
    [i \in DOMAIN p |-> IF p[i] = "\\" THEN "/" ELSE p[i]]

toStateKey(p) == toLowerCase(normalizePath(p))

Keys == {toStateKey(fsPath(d)) : d \in Docs}


\* the repository a document's file belongs to
repoOf(d) == IF d = "d3" THEN "r2" ELSE "r1"

Repos == {repoOf(d) : d \in Docs}

-----------------------------------------------------------------------------
(* What a step publishes: a context flag write, a blame-state-changed event *)
(* or a dirty-state-changed event.  obj is the TrackedDocument that         *)
(* published it (0: the store); forced says that the update that fired a   *)
(* blame event ran with forceBlameChange.                                  *)

CtxWrite(i, d, flag, v) ==
    [t |-> "ctx", obj |-> i, document |-> d, flag |-> flag, v |-> v,
     editor |-> NoEditor, forced |-> FALSE]

BlameEvent(i, d, v, forced) ==
    [t |-> "blame", obj |-> i, document |-> d, flag |-> "blameable", v |-> v,
     editor |-> NoEditor, forced |-> forced]

DirtyEvent(ed, d, v) ==
    [t |-> "dirty", obj |-> 0, document |-> d, flag |-> "dirty", v |-> v,
     editor |-> ed, forced |-> FALSE]

\* setCommandContext applied for every context write of pubs, in order
RECURSIVE setCommandContext(_, _)
setCommandContext(c, pubs) ==
    IF pubs = <<>> THEN c
    ELSE LET p == Head(pubs)
         IN  setCommandContext(IF p.t = "ctx" THEN [c EXCEPT ![p.flag] = p.v] ELSE c,
                               Tail(pubs))

\* the blameable value of the last blame event per document, after pubs
\* ("none" before the first)
ToStr(b) == IF b THEN "true" ELSE "false"

RECURSIVE blameHistory(_, _)
blameHistory(h, pubs) ==
    IF pubs = <<>> THEN h
    ELSE LET p == Head(pubs)
         IN  blameHistory(IF p.t = "blame" THEN [h EXCEPT ![p.document] = ToStr(p.v)] ELSE h,
                          Tail(pubs))

-----------------------------------------------------------------------------
(* TrackedDocument *)

\* the constructor: dirty starts false and initialize() runs up to its first
\* await (GitUri.fromUri), so _repo holds the pending promise
TrackedDocument(d, key) ==
    [document |-> d, key |-> key, dirty |-> FALSE, disposed |-> FALSE,
     blameFailed |-> FALSE, isTracked |-> FALSE, hasRemotes |-> FALSE,
     trigger |-> FALSE, uri |-> FALSE, repo |-> "promise", sub |-> FALSE,
     state |-> FALSE, ipc |-> "fromUri"]

\* a getter that forgets the recorded blame failure
isBlameable_IgnoresFailure(o) == o.isTracked

isBlameable(o) == IF o.blameFailed THEN FALSE ELSE o.isTracked

isRevision(o) == IF o.uri THEN hasSha(o.document) ELSE FALSE

isActive(o) == activeEditor # NoEditor /\ activeEditor.document = o.document

\* a reset that also clears the disposed flag
reset_Revives(S, i) ==
    [S EXCEPT !.objs[i] = [@ EXCEPT !.blameFailed = FALSE, !.state = FALSE,
                                    !.disposed = FALSE],
              !.upd = [k \in DOMAIN S.upd |->
                         IF S.upd[k].obj = i THEN [S.upd[k] EXCEPT !.stale = TRUE]
                         ELSE S.upd[k]]]

\* a reset that clears the cached state and keeps the recorded blame failure
reset_KeepsFailure(S, i) ==
    [S EXCEPT !.objs[i] = [@ EXCEPT !.state = FALSE],
              !.upd = [k \in DOMAIN S.upd |->
                         IF S.upd[k].obj = i THEN [S.upd[k] EXCEPT !.stale = TRUE]
                         ELSE S.upd[k]]]

\* reset: S holds objs and upd; the record of an update suspended at its query
\* remembers that a reset happened since the query was issued
reset(S, i) ==
    [S EXCEPT !.objs[i] = [@ EXCEPT !.blameFailed = FALSE, !.state = FALSE],
              !.upd = [k \in DOMAIN S.upd |->
                         IF S.upd[k].obj = i THEN [S.upd[k] EXCEPT !.stale = TRUE]
                         ELSE S.upd[k]]]

\* a dispose that leaves the repository-change subscription in place
dispose_KeepsSubscription(S, i) == reset([S EXCEPT !.objs[i].disposed = TRUE], i)

dispose(S, i) ==
    LET R == reset([S EXCEPT !.objs[i].disposed = TRUE], i)
    IN  [R EXCEPT !.objs[i].sub = FALSE]

\* update, up to its first await: the isTracked query is issued; wasBlameable
\* is undefined when forceBlameChange is set (force), else was
update(S, i, forceBlameChange, initializing) ==
    LET o == S.objs[i]
    IN  IF o.disposed \/ ~o.uri
        THEN [S EXCEPT !.objs[i] = [o EXCEPT !.hasRemotes = FALSE, !.isTracked = FALSE]]
        ELSE [S EXCEPT !.upd = Append(@,
                [obj |-> i, pc |-> "isTracked", isActive |-> isActive(o),
                 force |-> forceBlameChange, was |-> isBlameable(o),
                 init |-> initializing, stale |-> FALSE])]

\* whether a call of update would suspend a new continuation
updateSuspends(o) == ~(o.disposed \/ ~o.uri)

\* the value of "await this._repo" inside update
awaitRepo(o) == IF o.repo \in Repos THEN o.repo ELSE None

\* what update publishes when its isTracked query has resolved: c is the
\* suspended call, o the document with _isTracked already assigned
updatePublishes(c, i, o) ==
    IF c.isActive
    THEN <<CtxWrite(i, o.document, "revision", isRevision(o)),
           CtxWrite(i, o.document, "tracked", o.isTracked),
           CtxWrite(i, o.document, "blameable", isBlameable(o))>>
         \o (IF ~c.init /\ (c.force \/ c.was # isBlameable(o))
             THEN <<BlameEvent(i, o.document, isBlameable(o), c.force)>>
             ELSE <<>>)
    ELSE <<>>

updatePublishesRemote(c, i, o) ==
    IF c.isActive THEN <<CtxWrite(i, o.document, "remote", o.hasRemotes)>> ELSE <<>>

RemoveAt(s, k) == [j \in 1..(Len(s) - 1) |-> IF j < k THEN s[j] ELSE s[j + 1]]

\* an activate that writes only the context flags whose value differs
activate_OnlyChanged(i, o) ==
    SelectSeq(<<CtxWrite(i, o.document, "revision", isRevision(o)),
                CtxWrite(i, o.document, "tracked", o.isTracked),
                CtxWrite(i, o.document, "blameable", isBlameable(o)),
                CtxWrite(i, o.document, "remote", o.hasRemotes)>>,
              LAMBDA p : ctx[p.flag] # p.v)

activate(i, o) ==
    <<CtxWrite(i, o.document, "revision", isRevision(o)),
      CtxWrite(i, o.document, "tracked", o.isTracked),
      CtxWrite(i, o.document, "blameable", isBlameable(o)),
      CtxWrite(i, o.document, "remote", o.hasRemotes)>>


setBlameFailure(S, i) ==
    LET o  == S.objs[i]
        S1 == [S EXCEPT !.objs[i].blameFailed = TRUE]
    IN  IF isBlameable(o) /\ isActive(o) THEN update(S1, i, TRUE, FALSE) ELSE S1

\* an onRepositoryChanged that does not look at what changed
onRepositoryChanged_AnyChange(S, i, structural) == update(reset(S, i), i, FALSE, FALSE)

onRepositoryChanged(S, i, structural) ==
    IF ~structural THEN S ELSE update(reset(S, i), i, FALSE, FALSE)

-----------------------------------------------------------------------------
(* Steps *)

\* the last step: obj is the TrackedDocument it acted on (0: none), stale
\* says that a continuation resumed after a reset, editor is the editor a
\* deferred dirty-state callback was created for
\* cancelled says that the callback discarded a scheduled clean publish,
\* call is the suspended update call that the step resumed (NoCall: none)
NoCall ==
    [obj |-> 0, pc |-> "none", isActive |-> FALSE, force |-> FALSE, was |-> FALSE,
     init |-> FALSE, stale |-> FALSE]

Last(op, i, stale) ==
    [op |-> op, obj |-> i, stale |-> stale, editor |-> NoEditor, cancelled |-> FALSE,
     call |-> NoCall]

LastFor(op, ed, cancelled) ==
    [op |-> op, obj |-> 0, stale |-> FALSE, editor |-> ed, cancelled |-> cancelled,
     call |-> NoCall]

\* the step resumed the suspended call c
Resumed(op, c) == [Last(op, c.obj, c.stale) EXCEPT !.call = c]

Cur == [objs |-> objs, upd |-> upd, byDoc |-> byDoc, byKey |-> byKey]

\* the step ends with the documents of S, having published pubs
Commit(S, pubs, l) ==
    /\ objs' = S.objs
    /\ upd' = S.upd
    /\ out' = pubs
    /\ ctx' = setCommandContext(ctx, pubs)
    /\ lastBlame' = blameHistory(lastBlame, pubs)
    /\ last' = l

CommitStore(T, pubs, l) ==
    /\ Commit(T, pubs, l)
    /\ byDoc' = T.byDoc
    /\ byKey' = T.byKey

hostVars == <<activeEditor, isDirty>>

storeVars == <<byDoc, byKey>>

debVars == <<actDeb, chgDeb, dirtyDeb, imm, cleanHist>>

timerVars == <<debVars, flap>>

-----------------------------------------------------------------------------
(* History of a run of dirty flips of the active document: flips counts the *)
(* host's changes of its isDirty since the editor became active (the first  *)
(* one starting from a clean, quiet state), elapsed the time since the      *)
(* first flip, handled the becoming-dirty transitions of the                *)
(* TrackedDocument, pubT and pubF the dirty-state events published with     *)
(* dirty true and false.  void: something else happened to the document.    *)

FlapZero ==
    [flips |-> 0, elapsed |-> 0, handled |-> 0, pubT |-> 0, pubF |-> 0, void |-> FALSE]

FlapVoid == [FlapZero EXCEPT !.void = TRUE]

Min(a, b) == IF a < b THEN a ELSE b

\* the document of the active editor is clean and nothing is pending for it
QuietClean(d) ==
    /\ ~isDirty[d]
    /\ byDoc[d] # 0 => ~objs[byDoc[d]].dirty /\ ~objs[byDoc[d]].trigger
    /\ imm = <<>>
    /\ ~dirtyDeb.pending
    /\ ~chgDeb.pending

flapOnHostChange(d, v) ==
    IF flap.void THEN flap
    ELSE IF d # activeEditor.document
    THEN (IF flap.flips = 0 THEN flap ELSE FlapVoid)
    ELSE IF v = isDirty[d]
    THEN (IF flap.flips = 0 THEN flap ELSE FlapVoid)
    ELSE IF flap.flips = 0
    THEN (IF QuietClean(d) THEN [flap EXCEPT !.flips = 1] ELSE FlapVoid)
    ELSE IF flap.flips < 3 /\ flap.elapsed <= DirtyDelay
    THEN [flap EXCEPT !.flips = @ + 1]
    ELSE FlapVoid

flapOnPublish(pubs) ==
    IF flap.void \/ flap.flips = 0 \/ pubs = <<>> THEN flap
    ELSE IF pubs[1].v THEN [flap EXCEPT !.pubT = Min(3, @ + 1)]
    ELSE [flap EXCEPT !.pubF = Min(3, @ + 1)]

\* cleanHist before any notification
NoCleanHist ==
    [since |-> DirtyDelay, tick |-> FALSE, flapped |-> FALSE,
     published |-> [d \in Docs |-> "none"]]

\* per document, the dirty value of the last dirty-state-changed published
publishedAfter(pubs) ==
    IF pubs = <<>> THEN cleanHist.published
    ELSE [cleanHist.published EXCEPT ![pubs[1].document] = ToStr(pubs[1].v)]

flapOnAdvance ==
    IF flap.void \/ flap.flips = 0 THEN flap
    ELSE [flap EXCEPT !.elapsed = Min(DirtyDelay + Quantum, @ + Quantum)]

-----------------------------------------------------------------------------
(* TrackedDocument: the continuations of initialize and update *)

\* GitUri.fromUri resolves
InitFromUri(i) ==
    /\ i \in DOMAIN objs
    /\ objs[i].ipc = "fromUri"
    /\ LET o == [objs[i] EXCEPT !.uri = TRUE]
       IN  Commit([objs |-> [objs EXCEPT ![i] =
                        IF o.disposed THEN [o EXCEPT !.ipc = "done", !.repo = None]
                        ELSE [o EXCEPT !.ipc = "getRepo"]],
                   upd |-> upd],
                  <<>>, Last("initFromUri", i, FALSE))
    /\ UNCHANGED <<hostVars, storeVars, timerVars, budget>>
    /\ UNCHANGED <<gct, clc>>

\* getRepository resolves with repo (None: the document is in no repository)
InitGetRepository(i, repo) ==
    /\ i \in DOMAIN objs
    /\ objs[i].ipc = "getRepo"
    /\ LET o == objs[i]
       IN  IF o.disposed
           THEN Commit([objs |-> [objs EXCEPT ![i] = [o EXCEPT !.ipc = "done", !.repo = None]],
                        upd |-> upd],
                       <<>>, Last("initGetRepository", i, FALSE))
           ELSE /\ Len(upd) < MaxInflight
                /\ Commit(update([objs |-> [objs EXCEPT ![i] =
                                     [o EXCEPT !.ipc = "done", !.repo = repo,
                                               !.sub = (repo # None)]],
                                  upd |-> upd],
                                 i, FALSE, TRUE),
                          <<>>, Last("initGetRepository", i, FALSE))
    /\ UNCHANGED <<hostVars, storeVars, timerVars, budget>>
    /\ UNCHANGED <<gct, clc>>

\* fromUri or getRepository fails: initialize's promise is rejected
InitFails(i) ==
    /\ i \in DOMAIN objs
    /\ objs[i].ipc \in {"fromUri", "getRepo"}
    /\ Commit([objs |-> [objs EXCEPT ![i] = [@ EXCEPT !.ipc = "failed", !.repo = "rejected"]],
               upd |-> upd],
              <<>>, Last("initFails", i, FALSE))
    /\ UNCHANGED <<hostVars, storeVars, timerVars, budget>>
    /\ UNCHANGED <<gct, clc>>

\* the isTracked query of the suspended update k resolves with r
UpdateIsTracked(k, r) ==
    /\ k \in DOMAIN upd
    /\ upd[k].pc = "isTracked"
    /\ LET c  == upd[k]
           i  == c.obj
           o  == [objs[i] EXCEPT !.isTracked = r]
           p  == updatePublishes(c, i, o)
           o2 == [o EXCEPT !.hasRemotes = FALSE]
       IN  IF r /\ awaitRepo(o) # None
           THEN Commit([objs |-> [objs EXCEPT ![i] = o],
                        upd |-> [upd EXCEPT ![k].pc = "hasRemote"]],
                       p, Resumed("updateIsTracked", c))
           ELSE Commit([objs |-> [objs EXCEPT ![i] = o2], upd |-> RemoveAt(upd, k)],
                       p \o updatePublishesRemote(c, i, o2),
                       Resumed("updateIsTracked", c))
    /\ UNCHANGED <<hostVars, storeVars, timerVars, budget>>
    /\ UNCHANGED <<gct, clc>>

\* the hasRemote query of the suspended update k resolves with h
UpdateHasRemote(k, h) ==
    /\ k \in DOMAIN upd
    /\ upd[k].pc = "hasRemote"
    /\ LET c == upd[k]
           i == c.obj
           o == [objs[i] EXCEPT !.hasRemotes = h]
       IN  Commit([objs |-> [objs EXCEPT ![i] = o], upd |-> RemoveAt(upd, k)],
                  updatePublishesRemote(c, i, o), Resumed("updateHasRemote", c))
    /\ UNCHANGED <<hostVars, storeVars, timerVars, budget>>
    /\ UNCHANGED <<gct, clc>>

\* the query of the suspended update k fails: update's promise is rejected
UpdateFails(k) ==
    /\ k \in DOMAIN upd
    /\ Commit([objs |-> objs, upd |-> RemoveAt(upd, k)], <<>>,
              Resumed("updateFails", upd[k]))
    /\ UNCHANGED <<hostVars, storeVars, timerVars, budget>>
    /\ UNCHANGED <<gct, clc>>


-----------------------------------------------------------------------------
(* Functions.debounce: a timer holding the arguments of the last call.      *)
(* History kept with the timers: unseen, the file documents whose dirty     *)
(* status the host changed in a notification that no run of the change     *)
(* handler has applied yet; closed, the document of a scheduled dirty-state *)
(* publish was closed after the publish was scheduled; expect, per          *)
(* document, 0 when setTriggerOnNextChange was not called on its entry, else *)
(* 1 plus the number (at most 2) of change notifications the host sent for  *)
(* the document since the call; whileActive, the documents of unseen whose  *)
(* change was made while the active editor, still the same, showed them;    *)
(* gone, the documents the host reported closed (and not opened again) that *)
(* it has not since reported edited or shown, and no collaborator added.    *)

IdleActive == [pending |-> FALSE, editor |-> NoEditor]

IdleChange ==
    [pending |-> FALSE, document |-> None, rem |-> 0, unseen |-> {},
     expect |-> [d \in Docs |-> 0], whileActive |-> {}, gone |-> {}]

IdleDirty ==
    [pending |-> FALSE, editor |-> NoEditor, document |-> None, dirty |-> FALSE, rem |-> 0,
     closed |-> FALSE]

\* an invocation that, when a call is scheduled, keeps its deadline
dirtyStateChangedDebounced_KeepsDeadline(deb, ed, d, dirty) ==
    [pending |-> TRUE, editor |-> ed, document |-> d, dirty |-> dirty,
     rem |-> IF deb.pending THEN deb.rem ELSE DirtyDelay, closed |-> FALSE]

\* _dirtyStateChangedDebounced(editor, e): the call is scheduled DirtyDelay
\* from now with these arguments, replacing a scheduled one
dirtyStateChangedDebounced(deb, ed, d, dirty) ==
    [pending |-> TRUE, editor |-> ed, document |-> d, dirty |-> dirty,
     rem |-> DirtyDelay, closed |-> FALSE]

\* a cancel that leaves the scheduled call in place
cancel_Keeps(deb) == deb

\* deb.cancel(): the scheduled call is discarded
cancel(deb) == IdleDirty

\* a deferred publish that does not look at the active editor
stillActive_Unchecked(ed) == TRUE

\* window.activeTextEditor !== editor, read when a deferred publish runs
stillActive(ed) == activeEditor = ed

-----------------------------------------------------------------------------
(* DocumentStateTracker *)

addCore(T, d) ==
    LET key == toStateKey(fsPath(d))
        i   == Len(T.objs) + 1
    IN  [T EXCEPT !.objs = Append(@, TrackedDocument(d, key)),
                  !.byDoc[d] = i,
                  !.byKey[key] = i]

\* get(document): the entry under the document's identity (0: undefined)
get(T, document) == T.byDoc[document]

\* get(fileName) and get(uri), with the uri's fsPath: the entry under the
\* normalized key (0: undefined)
getByFileName(T, fileName) ==
    LET key == toStateKey(fileName)
    IN  IF key \in DOMAIN T.byKey THEN T.byKey[key] ELSE 0

\* has(document), has(fileName), has(uri)
has(T, document) == T.byDoc[document] # 0

hasByFileName(T, fileName) ==
    LET key == toStateKey(fileName)
    IN  key \in DOMAIN T.byKey /\ T.byKey[key] # 0

\* _documentMap.values(): the TrackedDocuments the map holds
mapValues(T) == ({T.byDoc[d] : d \in Docs} \cup {T.byKey[k] : k \in Keys}) \ {0}

\* a resetAll that disposes the documents it visits
RECURSIVE resetAll_Disposing(_, _)
resetAll_Disposing(T, i) ==
    IF i > Len(T.objs) THEN T
    ELSE resetAll_Disposing(IF i \in mapValues(T) THEN dispose(T, i) ELSE T, i + 1)

RECURSIVE resetAll(_, _)
resetAll(T, i) ==
    IF i > Len(T.objs) THEN T
    ELSE resetAll(IF i \in mapValues(T) THEN reset(T, i) ELSE T, i + 1)

\* every notification, clean ones too, published on the next tick
fireDocumentDirtyStateChanged_AllImmediate(ed, d, dirty) ==
    /\ imm' = Append(imm, [editor |-> ed, document |-> d, dirty |-> dirty,
                           inWindow |-> dirtyDeb.pending /\ dirtyDeb.rem > 0,
                           closed |-> FALSE])
    /\ UNCHANGED <<dirtyDeb, cleanHist>>

\* every notification, becoming dirty too, sent through the 250ms debouncer
fireDocumentDirtyStateChanged_AllDebounced(ed, d, dirty) ==
    /\ dirtyDeb' = dirtyStateChangedDebounced(dirtyDeb, ed, d, dirty)
    /\ cleanHist' = [cleanHist EXCEPT !.since = 0, !.tick = FALSE]
    /\ UNCHANGED imm

\* fireDocumentDirtyStateChanged: becoming dirty goes to setImmediate, a clean
\* notification to the 250ms debouncer.  inWindow (history) records that a
\* clean publish was pending and not yet due when the dirty one was scheduled
fireDocumentDirtyStateChanged(ed, d, dirty) ==
    IF dirty
    THEN /\ imm' = Append(imm, [editor |-> ed, document |-> d, dirty |-> dirty,
                                inWindow |-> dirtyDeb.pending /\ dirtyDeb.rem > 0,
                                closed |-> FALSE])
         /\ UNCHANGED <<dirtyDeb, cleanHist>>
    ELSE /\ dirtyDeb' = dirtyStateChangedDebounced(dirtyDeb, ed, d, dirty)
         /\ cleanHist' = [cleanHist EXCEPT !.since = 0, !.tick = FALSE]
         /\ UNCHANGED imm

\* the host changes the active editor and notifies the debounced handler
HostActiveEditorChanged(ed) ==
    /\ budget > 0
    /\ ed # activeEditor
    /\ activeEditor' = ed
    /\ actDeb' = [pending |-> TRUE, editor |-> ed]
    /\ budget' = budget - 1
    /\ out' = <<>>
    /\ last' = Last("hostActiveEditorChanged", 0, FALSE)
    /\ flap' = FlapZero
    /\ chgDeb' = [chgDeb EXCEPT !.whileActive = {}, !.gone = @ \ {ed.document}]
    /\ UNCHANGED <<isDirty, ctx, byDoc, byKey, objs, upd, dirtyDeb, imm,
                   lastBlame, cleanHist>>
    /\ UNCHANGED <<gct, clc>>

\* onActiveTextEditorChanged, run by its debouncer
OnActiveTextEditorChanged ==
    /\ actDeb.pending
    /\ actDeb' = IdleActive
    /\ LET ed == actDeb.editor
           d  == ed.document
       IN  IF ed = NoEditor
           THEN CommitStore(Cur,
                    <<CtxWrite(0, None, "revision", FALSE), CtxWrite(0, None, "tracked", FALSE),
                      CtxWrite(0, None, "blameable", FALSE), CtxWrite(0, None, "remote", FALSE)>>,
                    Last("onActiveTextEditorChanged", 0, FALSE))
           ELSE IF byDoc[d] # 0
           THEN CommitStore(Cur, activate(byDoc[d], objs[byDoc[d]]),
                            Last("activate", byDoc[d], FALSE))
           ELSE /\ Len(objs) < MaxObjs
                /\ CommitStore(addCore(Cur, d), <<>>,
                               Last("addCore", Len(objs) + 1, FALSE))
    /\ UNCHANGED <<hostVars, chgDeb, dirtyDeb, imm, cleanHist, flap, budget>>
    /\ UNCHANGED <<gct, clc>>

\* the host reports a change of document d, whose isDirty is then v
HostTextDocumentChanged(d, v) ==
    /\ budget > 0
    /\ isDirty' = [isDirty EXCEPT ![d] = v]
    /\ chgDeb' = [pending |-> TRUE, document |-> d, rem |-> ChangeDelay,
                  unseen |-> chgDeb.unseen \cup
                             (IF scheme(d) = "file" /\ v # isDirty[d] THEN {d} ELSE {}),
                  expect |-> [chgDeb.expect EXCEPT ![d] =
                                 IF @ \in {1, 2} THEN @ + 1 ELSE @],
                  whileActive |-> chgDeb.whileActive \cup
                             (IF /\ scheme(d) = "file"
                                 /\ v # isDirty[d]
                                 /\ activeEditor.document = d
                              THEN {d} ELSE {}),
                  gone |-> chgDeb.gone \ {d}]
    /\ budget' = budget - 1
    /\ out' = <<>>
    /\ last' = Last("hostTextDocumentChanged", 0, FALSE)
    /\ flap' = flapOnHostChange(d, v)
    /\ UNCHANGED <<activeEditor, ctx, byDoc, byKey, objs, upd, actDeb, dirtyDeb, imm,
                   lastBlame, cleanHist>>
    /\ UNCHANGED <<gct, clc>>

\* onTextDocumentChanged, run by its debouncer with the last notification
OnTextDocumentChanged ==
    /\ chgDeb.pending
    /\ chgDeb.rem = 0
    /\ LET d == chgDeb.document
       IN  IF scheme(d) # "file"
           THEN /\ CommitStore(Cur, <<>>, Last("onTextDocumentChanged", 0, FALSE))
                /\ chgDeb' = [IdleChange EXCEPT !.unseen = chgDeb.unseen,
                                                !.expect = chgDeb.expect,
                                                !.whileActive = chgDeb.whileActive,
                                                !.gone = chgDeb.gone]
                /\ UNCHANGED <<dirtyDeb, imm, cleanHist, flap>>
           ELSE /\ byDoc[d] = 0 => Len(objs) < MaxObjs
                /\ LET T0 == IF byDoc[d] = 0 THEN addCore(Cur, d) ELSE Cur
                       i  == T0.byDoc[d]
                       T1 == reset(T0, i)
                       o  == T1.objs[i]
                       returns == ~o.trigger /\ o.dirty = isDirty[d]
                       o2 == IF o.trigger THEN [o EXCEPT !.trigger = FALSE]
                             ELSE IF returns THEN o
                             ELSE [o EXCEPT !.dirty = ~o.dirty]
                   IN  /\ CommitStore([T1 EXCEPT !.objs[i] = o2], <<>>,
                                      Last("onTextDocumentChanged", i, FALSE))
                       /\ chgDeb' = [IdleChange EXCEPT !.unseen =
                                        IF o2.dirty = isDirty[d] THEN chgDeb.unseen \ {d}
                                        ELSE chgDeb.unseen,
                                                       !.expect = chgDeb.expect,
                                                       !.whileActive =
                                        IF o2.dirty = isDirty[d] THEN chgDeb.whileActive \ {d}
                                        ELSE chgDeb.whileActive,
                                                       !.gone = chgDeb.gone]
                       /\ IF ~returns /\ activeEditor # NoEditor
                                      /\ activeEditor.document = d
                          THEN /\ fireDocumentDirtyStateChanged(activeEditor, d, o2.dirty)
                               /\ flap' = IF ~flap.void /\ flap.flips > 0 /\ o2.dirty
                                          THEN [flap EXCEPT !.handled = Min(3, @ + 1)]
                                          ELSE flap
                          ELSE UNCHANGED <<dirtyDeb, imm, cleanHist, flap>>
    /\ UNCHANGED <<hostVars, actDeb, budget>>
    /\ UNCHANGED <<gct, clc>>

\* the setImmediate callback of a becoming-dirty notification
RunImmediate ==
    /\ imm # <<>>
    /\ imm' = Tail(imm)
    /\ dirtyDeb' = cancel(dirtyDeb)
    /\ LET e    == Head(imm)
           pubs == IF stillActive(e.editor)
                   THEN <<DirtyEvent(e.editor, e.document, e.dirty)>>
                   ELSE <<>>
       IN  /\ CommitStore(Cur, pubs, LastFor("runImmediate", e.editor, dirtyDeb.pending))
           /\ cleanHist' = [cleanHist EXCEPT !.tick = TRUE,
                                            !.flapped = @ \/ dirtyDeb.pending,
                                            !.published = publishedAfter(pubs)]
           /\ flap' = flapOnPublish(pubs)
    /\ UNCHANGED <<hostVars, actDeb, chgDeb, budget>>
    /\ UNCHANGED <<gct, clc>>

\* the 250ms debouncer runs its callback
DirtyDebounceFires ==
    /\ dirtyDeb.pending
    /\ dirtyDeb.rem = 0
    /\ dirtyDeb' = IdleDirty
    /\ LET pubs == IF stillActive(dirtyDeb.editor)
                   THEN <<DirtyEvent(dirtyDeb.editor, dirtyDeb.document, dirtyDeb.dirty)>>
                   ELSE <<>>
       IN  /\ CommitStore(Cur, pubs, LastFor("dirtyDebounceFires", dirtyDeb.editor, FALSE))
           /\ flap' = flapOnPublish(pubs)
           /\ cleanHist' = [cleanHist EXCEPT !.published = publishedAfter(pubs)]
    /\ UNCHANGED <<hostVars, actDeb, chgDeb, imm, budget>>
    /\ UNCHANGED <<gct, clc>>

\* the host reports document d closed: the document was disposed, or, when
\* the active editor still shows it, its language id was changed (the host
\* then reports it closed and opened again, the document and editor unchanged)
OnTextDocumentClosed(d) ==
    /\ budget > 0
    /\ budget' = budget - 1
    /\ isDirty' = IF activeEditor.document = d THEN isDirty
                  ELSE [isDirty EXCEPT ![d] = FALSE]
    /\ dirtyDeb' = IF dirtyDeb.pending /\ dirtyDeb.document = d
                   THEN [dirtyDeb EXCEPT !.closed = TRUE] ELSE dirtyDeb
    /\ imm' = [j \in DOMAIN imm |->
                 IF imm[j].document = d THEN [imm[j] EXCEPT !.closed = TRUE] ELSE imm[j]]
    /\ chgDeb' = [chgDeb EXCEPT !.unseen = @ \ {d}, !.expect[d] = 0,
                                !.whileActive = @ \ {d},
                                !.gone = IF activeEditor.document = d THEN @ \ {d}
                                         ELSE @ \cup {d}]
    /\ flap' = IF activeEditor.document = d THEN FlapVoid ELSE flap
    /\ LET i == byDoc[d]
       IN  IF i = 0
           THEN CommitStore(Cur, <<>>, Last("onTextDocumentClosed", 0, FALSE))
           ELSE CommitStore([dispose(Cur, i) EXCEPT !.byDoc[d] = 0,
                                                    !.byKey[objs[i].key] = 0],
                            <<>>, Last("onTextDocumentClosed", i, FALSE))
    /\ UNCHANGED <<activeEditor, actDeb, cleanHist>>
    /\ UNCHANGED <<gct, clc>>

\* add(document), called by a collaborator
Add(d) ==
    /\ budget > 0
    /\ Len(objs) < MaxObjs
    /\ budget' = budget - 1
    /\ CommitStore(addCore(Cur, d), <<>>, Last("add", Len(objs) + 1, FALSE))
    /\ flap' = IF d = activeEditor.document THEN FlapVoid ELSE flap
    /\ chgDeb' = [chgDeb EXCEPT !.gone = @ \ {d}]
    /\ UNCHANGED <<hostVars, actDeb, dirtyDeb, imm, cleanHist>>
    /\ UNCHANGED <<gct, clc>>

\* dispose called once per map entry that holds the TrackedDocument i
RECURSIVE disposeTimes(_, _, _)
disposeTimes(T, i, n) == IF n = 0 THEN T ELSE disposeTimes(dispose(T, i), i, n - 1)

entriesOf(T, i) ==
    Cardinality({d \in Docs : T.byDoc[d] = i}) + Cardinality({k \in Keys : T.byKey[k] = i})

RECURSIVE disposeAll(_, _)
disposeAll(T, i) ==
    IF i > Len(T.objs) THEN T
    ELSE disposeAll(disposeTimes(T, i, entriesOf(T, i)), i + 1)

\* clear(): every value of the map is disposed, then the map is emptied
Clear ==
    /\ budget > 0
    /\ mapValues(Cur) # {}
    /\ budget' = budget - 1
    /\ CommitStore([disposeAll(Cur, 1) EXCEPT !.byDoc = [d \in Docs |-> 0],
                                              !.byKey = [k \in Keys |-> 0]],
                   <<>>, Last("clear", 0, FALSE))
    /\ flap' = IF flap.flips = 0 THEN flap ELSE FlapVoid
    /\ UNCHANGED <<hostVars, debVars>>
    /\ UNCHANGED <<gct, clc>>

\* onConfigurationChanged: relevant says that blame.ignoreWhitespace or
\* advanced.caching.enabled changed
OnConfigurationChanged(initializing, relevant) ==
    /\ budget > 0
    /\ budget' = budget - 1
    /\ CommitStore(IF ~initializing /\ relevant THEN resetAll(Cur, 1) ELSE Cur,
                   <<>>, Last("onConfigurationChanged", 0, FALSE))
    /\ UNCHANGED <<hostVars, timerVars>>
    /\ UNCHANGED <<gct, clc>>


-----------------------------------------------------------------------------
(* Collaborators: the repository, the blame service, the annotation code *)

\* the repository fires onDidChange: every subscribed document's
\* onRepositoryChanged runs
RECURSIVE repositoryFires(_, _, _, _)
repositoryFires(S, repo, structural, i) ==
    IF i > Len(S.objs) THEN S
    ELSE repositoryFires(IF S.objs[i].sub /\ S.objs[i].repo = repo
                         THEN onRepositoryChanged(S, i, structural)
                         ELSE S,
                         repo, structural, i + 1)

\* (repo is a repository that some TrackedDocument has resolved)
RepositoryChanged(repo, structural) ==
    /\ budget > 0
    /\ \E i \in DOMAIN objs : objs[i].repo = repo
    /\ LET S == repositoryFires([objs |-> objs, upd |-> upd], repo, structural, 1)
       IN  /\ Len(S.upd) <= MaxInflight
           /\ Commit(S, <<>>, Last(IF structural THEN "repositoryChanged" ELSE "refsChanged",
                                   0, FALSE))
    /\ budget' = budget - 1
    /\ UNCHANGED <<hostVars, storeVars, timerVars>>
    /\ UNCHANGED <<gct, clc>>

\* a blame of the document failed: the blame service calls setBlameFailure
SetBlameFailure(i) ==
    /\ budget > 0
    /\ i \in mapValues(Cur)
    /\ LET S == setBlameFailure([objs |-> objs, upd |-> upd], i)
       IN  /\ Len(S.upd) <= MaxInflight
           /\ Commit(S, <<>>, Last("setBlameFailure", i, FALSE))
    /\ budget' = budget - 1
    /\ UNCHANGED <<hostVars, storeVars, timerVars>>
    /\ UNCHANGED <<gct, clc>>

\* the git service caches its state on the document (doc.state = ...)
SetState(i) ==
    /\ budget > 0
    /\ i \in mapValues(Cur)
    /\ ~objs[i].state
    /\ Commit([objs |-> [objs EXCEPT ![i].state = TRUE], upd |-> upd], <<>>,
              Last("setState", i, FALSE))
    /\ budget' = budget - 1
    /\ UNCHANGED <<hostVars, storeVars, timerVars>>
    /\ UNCHANGED <<gct, clc>>

\* an annotation is about to edit a dirty document: setTriggerOnNextChange
SetTriggerOnNextChange(i) ==
    /\ budget > 0
    /\ i \in mapValues(Cur)
    /\ isDirty[objs[i].document]
    /\ ~objs[i].trigger
    /\ Commit([objs |-> [objs EXCEPT ![i].trigger = TRUE], upd |-> upd], <<>>,
              Last("setTriggerOnNextChange", i, FALSE))
    /\ budget' = budget - 1
    /\ flap' = IF objs[i].document = activeEditor.document THEN FlapVoid ELSE flap
    /\ chgDeb' = [chgDeb EXCEPT !.expect[objs[i].document] = 1]
    /\ UNCHANGED <<hostVars, storeVars, actDeb, dirtyDeb, imm, cleanHist>>
    /\ UNCHANGED <<gct, clc>>

-----------------------------------------------------------------------------
(* Time *)

\* the clock advances by Quantum: no callback is due and no setImmediate
\* callback is waiting
Advance ==
    /\ imm = <<>>
    /\ ~actDeb.pending
    /\ chgDeb.pending => chgDeb.rem > 0
    /\ dirtyDeb.pending => dirtyDeb.rem > 0
    /\ chgDeb.pending \/ dirtyDeb.pending
    /\ chgDeb' = IF chgDeb.pending THEN [chgDeb EXCEPT !.rem = @ - Min(@, Quantum)] ELSE chgDeb
    /\ dirtyDeb' = IF dirtyDeb.pending THEN [dirtyDeb EXCEPT !.rem = @ - Min(@, Quantum)]
                   ELSE dirtyDeb
    /\ cleanHist' = [cleanHist EXCEPT !.since = Min(DirtyDelay, @ + Quantum)]
    /\ out' = <<>>
    /\ last' = Last("advance", 0, FALSE)
    /\ flap' = flapOnAdvance
    /\ UNCHANGED <<hostVars, ctx, storeVars, objs, upd, actDeb, imm, lastBlame, budget>>
    /\ UNCHANGED <<gct, clc>>

-----------------------------------------------------------------------------
(* GitContextTracker (src/unnamed/part_000): the context repository and the *)
(* remote flags.  repo is _context.repo; uc the updateContext call that is  *)
(* suspended (pc "idle": none), with the repository getRepository answers   *)
(* for its editor; calls the updateRemotes calls suspended at an await;     *)
(* ActiveHasRemote and HasRemotes the context flags; truth says which       *)
(* repositories have a remote; failed (history) that a query of            *)
(* updateRemotes failed.                                                    *)

MaxBrokerEvents == 4

MaxRemoteCalls == 2

\* git.getRepositories(): the known repositories, in order
Repositories == <<"r1", "r2">>

IdleContext == [pc |-> "idle", repo |-> None]

\* _context.state and the context flags before anything was written
NoFlags == [revision |-> "undefined", tracked |-> "undefined", blameable |-> "undefined"]

NoBroker ==
    [repo |-> None, uc |-> IdleContext, calls |-> <<>>,
     ActiveHasRemote |-> FALSE, HasRemotes |-> FALSE,
     truth |-> [r \in Repos |-> FALSE], failed |-> FALSE,
     editor |-> NoEditor, uri |-> None, state |-> NoFlags, flags |-> NoFlags,
     repoDisposable |-> None, leaked |-> [r \in Repos |-> 0], ucs |-> <<>>,
     Enabled |-> "undefined", listeners |-> 0, configured |-> TRUE,
     tracked |-> [d \in Docs |-> FALSE], started |-> NoEditor]

\* repo.hasRemote() of the context repository
hasRemote(g, repo) == g.truth[repo]

\* repo.hasRemotes() of a repository found by the scan
hasRemotes(g, repo) == g.truth[repo]

\* the scan loop from index j on: the first repository that is not the
\* context repository (0: the loop ends)
RECURSIVE nextScan(_, _)
nextScan(g, j) ==
    IF j > Len(Repositories) THEN 0
    ELSE IF Repositories[j] = g.repo THEN nextScan(g, j + 1)
    ELSE j

\* updateRemotes, its last statement: the aggregate flag is written
finishRemotes(g, k, answer) ==
    [g EXCEPT !.HasRemotes = answer, !.calls = RemoveAt(@, k)]

\* updateRemotes up to its first await
updateRemotes(g) ==
    IF g.repo # None
    THEN [g EXCEPT !.calls = Append(@, [pc |-> "hasRemote", own |-> g.repo, idx |-> 0])]
    ELSE [g EXCEPT !.ActiveHasRemote = FALSE,
                   !.calls = Append(@, [pc |-> "getRepositories", own |-> None, idx |-> 0])]

BrokerStep(g, op) ==
    /\ gct' = g
    /\ out' = <<>>
    /\ last' = Last(op, 0, FALSE)
    /\ UNCHANGED <<activeEditor, isDirty, ctx, byDoc, byKey, objs, upd, actDeb, chgDeb,
                   dirtyDeb, imm, lastBlame, cleanHist, flap, clc>>

\* onActiveTextEditorChanged -> updateContext(EditorChanged, editor, true), up
\* to its first await; repo is the repository of the new editor's document
\* (None: a document in no repository)
BrokerEditorChanged(repo) ==
    /\ budget > 0
    /\ gct.uc.pc = "idle"
    /\ budget' = budget - 1
    /\ BrokerStep([gct EXCEPT !.repo = None, !.uc = [pc |-> "getRepository", repo |-> repo]],
                  "brokerEditorChanged")

\* onActiveTextEditorChanged -> updateContext(EditorChanged, undefined, true):
\* no editor is active, nothing is awaited and updateRemotes is called
BrokerNoEditor ==
    /\ budget > 0
    /\ gct.uc.pc = "idle"
    /\ Len(gct.calls) < MaxRemoteCalls
    /\ budget' = budget - 1
    /\ BrokerStep(updateRemotes([gct EXCEPT !.repo = None]), "brokerNoEditor")

\* updateContext: getRepository has answered
BrokerGetRepository ==
    /\ gct.uc.pc = "getRepository"
    /\ BrokerStep([gct EXCEPT !.repo = gct.uc.repo, !.uc.pc = "isTracked"],
                  "brokerGetRepository")
    /\ UNCHANGED budget

\* updateContext: isTracked has answered; updateRemotes is called
BrokerIsTracked ==
    /\ gct.uc.pc = "isTracked"
    /\ Len(gct.calls) < MaxRemoteCalls
    /\ BrokerStep(updateRemotes([gct EXCEPT !.uc = IdleContext]), "brokerIsTracked")
    /\ UNCHANGED budget

\* onGitChanged with reason Repositories
BrokerGitChanged ==
    /\ budget > 0
    /\ Len(gct.calls) < MaxRemoteCalls
    /\ budget' = budget - 1
    /\ BrokerStep(updateRemotes(gct), "brokerGitChanged")

\* updateRemotes: hasRemote of the repository it started with has answered
RemotesHasRemote(k) ==
    /\ k \in DOMAIN gct.calls
    /\ gct.calls[k].pc = "hasRemote"
    /\ LET answer == hasRemote(gct, gct.calls[k].own)
           g   == [gct EXCEPT !.ActiveHasRemote = answer]
       IN  IF answer
           THEN BrokerStep(finishRemotes(g, k, TRUE), "updateRemotesDone")
           ELSE BrokerStep([g EXCEPT !.calls[k].pc = "getRepositories"], "remotesHasRemote")
    /\ UNCHANGED budget

\* updateRemotes: getRepositories has answered; the scan starts
RemotesGetRepositories(k) ==
    /\ k \in DOMAIN gct.calls
    /\ gct.calls[k].pc = "getRepositories"
    /\ LET j == nextScan(gct, 1)
       IN  IF j = 0
           THEN BrokerStep(finishRemotes(gct, k, FALSE), "updateRemotesDone")
           ELSE BrokerStep([gct EXCEPT !.calls[k].pc = "hasRemotes", !.calls[k].idx = j],
                           "remotesGetRepositories")
    /\ UNCHANGED budget

\* updateRemotes: hasRemotes of the scanned repository has answered
RemotesHasRemotes(k) ==
    /\ k \in DOMAIN gct.calls
    /\ gct.calls[k].pc = "hasRemotes"
    /\ LET answer == hasRemotes(gct, Repositories[gct.calls[k].idx])
           j   == nextScan(gct, gct.calls[k].idx + 1)
       IN  IF answer \/ j = 0
           THEN BrokerStep(finishRemotes(gct, k, answer), "updateRemotesDone")
           ELSE BrokerStep([gct EXCEPT !.calls[k].idx = j], "remotesHasRemotes")
    /\ UNCHANGED budget

\* updateRemotes: an awaited query fails; the exception is caught and logged
RemotesFails(k) ==
    /\ k \in DOMAIN gct.calls
    /\ BrokerStep([gct EXCEPT !.calls = RemoveAt(@, k), !.failed = TRUE],
                  "updateRemotesFailed")
    /\ UNCHANGED budget

-----------------------------------------------------------------------------
(* GitContextTracker: the context of the active editor.  editor, uri, repo  *)
(* and state are the fields of _context; repoDisposable is the repository   *)
(* whose change subscription _context.repoDisposable holds, leaked counts,  *)
(* per repository, the subscriptions that were overwritten there without    *)
(* being disposed; ucs are the updateContext calls suspended at an await;   *)
(* flags and Enabled are the context flags written; listeners counts the    *)
(* registered sets of host-event listeners; configured is the host's value  *)
(* of git.enabled and tracked what git.isTracked answers per document.      *)
(* History: started, the editor passed to the last updateContext call.      *)

MaxContextEvents == 3

MaxContextCalls == 2

MaxContextRemotes == 1

\* the live repository-change subscriptions to repository r
liveSubscriptions(g, r) ==
    g.leaked[r] + (IF g.repoDisposable = r THEN 1 ELSE 0)

updateBlameability(g, force) ==
    LET blameable == g.state.tracked
    IN  IF ~force /\ g.state.blameable = blameable THEN g
        ELSE [g EXCEPT !.state.blameable = blameable, !.flags.blameable = blameable]

\* updateContext from the context-flag writes on, updateRemotes included
finishContext(g, force, revision, tracked) ==
    LET g1 == IF g.state.revision # revision
              THEN [g EXCEPT !.state.revision = revision, !.flags.revision = revision]
              ELSE g
        g2 == IF g1.state.tracked # tracked
              THEN [g1 EXCEPT !.state.tracked = tracked, !.flags.tracked = tracked]
              ELSE g1
    IN  updateRemotes(updateBlameability(g2, force))

\* updateContext(reason, editor, force) up to its first await
updateContext(g, editor, force) ==
    LET g0 == [g EXCEPT !.started = editor]
    IN  IF force \/ g.editor # editor
        THEN LET g1 == [g0 EXCEPT !.editor = editor, !.repo = None,
                                  !.repoDisposable = None]
             IN  IF editor # NoEditor
                 THEN [g1 EXCEPT !.ucs = Append(@, [pc |-> "fromUri", editor |-> editor,
                                                    force |-> force, uri |-> None,
                                                    revision |-> FALSE])]
                 ELSE finishContext([g1 EXCEPT !.uri = None, !.state.blameable = "false"],
                                    force, "false", "false")
        ELSE IF g.uri # None
        THEN [g0 EXCEPT !.ucs = Append(@, [pc |-> "isTracked", editor |-> editor,
                                           force |-> force, uri |-> g.uri,
                                           revision |-> hasSha(g.uri)])]
        ELSE finishContext(g0, force, "false", "false")

\* onConfigurationChanged, which keeps the listeners it had registered
onConfigurationChanged_KeepsListeners(g, initializing, affects, editor) ==
    IF ~initializing /\ ~affects THEN g
    ELSE LET enabled == g.configured
             g1 == [g EXCEPT !.Enabled = ToStr(enabled),
                             !.listeners = @ + (IF enabled THEN 1 ELSE 0)]
         IN  updateContext(g1, editor, enabled)

\* onConfigurationChanged(e); editor is window.activeTextEditor
onConfigurationChanged(g, initializing, affects, editor) ==
    IF ~initializing /\ ~affects THEN g
    ELSE LET enabled == g.configured
             g1 == [g EXCEPT !.Enabled = ToStr(enabled),
                             !.listeners = IF enabled THEN 1 ELSE 0]
         IN  updateContext(g1, editor, enabled)

ContextStep(g, op, editor) ==
    /\ gct' = g
    /\ activeEditor' = editor
    /\ out' = <<>>
    /\ last' = Last(op, 0, FALSE)
    /\ Len(g.ucs) <= MaxContextCalls
    /\ Len(g.calls) <= MaxContextRemotes
    /\ UNCHANGED <<isDirty, ctx, byDoc, byKey, objs, upd, actDeb, chgDeb,
                   dirtyDeb, imm, lastBlame, cleanHist, flap, clc>>

\* the host changes git.enabled to value (affects) or another setting, and
\* reports the change
ContextConfigurationChanged(initializing, affects, value) ==
    /\ budget > 0
    /\ budget' = budget - 1
    /\ ~affects => value = gct.configured
    /\ ContextStep(onConfigurationChanged([gct EXCEPT !.configured = value],
                                          initializing, affects, activeEditor),
                   IF initializing \/ affects THEN "contextConfigurationChanged"
                   ELSE "contextConfigurationOther",
                   activeEditor)

\* the host changes the active editor; when the listeners are registered,
\* onActiveTextEditorChanged(editor) runs (from its 50ms debouncer)
ContextActiveTextEditorChanged(editor) ==
    /\ budget > 0
    /\ budget' = budget - 1
    /\ editor # activeEditor
    /\ IF gct.listeners = 0 \/ editor = gct.editor
       THEN ContextStep(gct, "contextActiveTextEditorChanged", editor)
       ELSE ContextStep(updateContext(gct, editor, TRUE),
                        "contextActiveTextEditorChanged", editor)

\* a repository with a live subscription of the tracker fires onDidChange:
\* onRepoChanged
ContextRepoChanged(r) ==
    /\ budget > 0
    /\ budget' = budget - 1
    /\ liveSubscriptions(gct, r) > 0
    /\ ContextStep(updateRemotes(updateContext(gct, gct.editor, FALSE)),
                   "contextRepoChanged", activeEditor)

\* updateContext: GitUri.fromUri has answered
ContextFromUri(k) ==
    /\ k \in DOMAIN gct.ucs
    /\ gct.ucs[k].pc = "fromUri"
    /\ ContextStep([gct EXCEPT !.uri = gct.ucs[k].editor.document,
                               !.ucs[k].pc = "getRepository",
                               !.ucs[k].uri = gct.ucs[k].editor.document],
                   "contextFromUri", activeEditor)
    /\ UNCHANGED budget

\* updateContext: getRepository has answered with the repository of the uri
\* the call resolved; _context.uri is read again for the isTracked query,
\* and reading its sha throws when it is undefined by then
ContextGetRepository(k) ==
    /\ k \in DOMAIN gct.ucs
    /\ gct.ucs[k].pc = "getRepository"
    /\ LET repo == repoOf(gct.ucs[k].uri)
           g1   == [gct EXCEPT !.repo = repo,
                               !.leaked = IF gct.repoDisposable = None THEN @
                                          ELSE [@ EXCEPT ![gct.repoDisposable] = @ + 1],
                               !.repoDisposable = repo]
       IN  IF g1.uri = None
           THEN ContextStep([g1 EXCEPT !.ucs = RemoveAt(@, k), !.failed = TRUE],
                            "contextFails", activeEditor)
           ELSE ContextStep([g1 EXCEPT !.ucs[k].pc = "isTracked",
                                       !.ucs[k].uri = g1.uri,
                                       !.ucs[k].revision = hasSha(g1.uri)],
                            "contextGetRepository", activeEditor)
    /\ UNCHANGED budget

\* updateContext: isTracked has answered; the call runs to its end
ContextIsTracked(k) ==
    /\ k \in DOMAIN gct.ucs
    /\ gct.ucs[k].pc = "isTracked"
    /\ LET c == gct.ucs[k]
       IN  ContextStep(finishContext([gct EXCEPT !.ucs = RemoveAt(@, k)], c.force,
                                     ToStr(c.revision), ToStr(gct.tracked[c.uri])),
                       "contextDone", activeEditor)
    /\ UNCHANGED budget

\* updateContext: an awaited query fails; the exception is caught and logged
ContextFails(k) ==
    /\ k \in DOMAIN gct.ucs
    /\ ContextStep([gct EXCEPT !.ucs = RemoveAt(@, k), !.failed = TRUE],
                   "contextFails", activeEditor)
    /\ UNCHANGED budget

-----------------------------------------------------------------------------
(* CurrentLineController: the blame of the current line.  It tracks one     *)
(* editor (editor: whether _editor is defined).  deb is its tracked         *)
(* debouncer of updateBlame, calls the updateBlame calls suspended at the   *)
(* line-blame query, refreshing and selecting the refresh and selection     *)
(* handlers suspended at GitUri.fromUri.  status is the commit the status   *)
(* bar and the annotation show.  History: sel, the line of the editor's     *)
(* selection; show, the arguments of the show call of the last step; race,  *)
(* why the last resumed query was superseded; result, what it returned.     *)

MaxLine == 1

MaxLineEvents == 4

MaxLineCalls == 2

Lines == 0..MaxLine

Commits == {"c1", "c2"}

IdleBlame == [pending |-> FALSE, line |-> -1]

\* show was not called
NoShow == [commit |-> None, line |-> -1]

NoLine ==
    [editor |-> FALSE, uri |-> FALSE, blameable |-> FALSE, considerDirty |-> FALSE,
     foo |-> FALSE, deb |-> IdleBlame, line |-> -1, commit |-> None, status |-> None,
     refreshing |-> 0, selecting |-> <<>>, calls |-> <<>>,
     sel |-> 0, show |-> NoShow, race |-> "none", result |-> None]

canBlame(c) == c.blameable /\ ~c.considerDirty

clearLineState(c, line) == [c EXCEPT !.line = line, !.commit = None]

\* _updateBlameDebounced.cancel()
cancelBlame(c) == [c EXCEPT !.deb = IdleBlame]

\* _updateBlameDebounced(line, editor)
updateBlameDebounced(c, line) == [c EXCEPT !.deb = [pending |-> TRUE, line |-> line]]

clear(c) == [clearLineState(cancelBlame(c), c.line) EXCEPT !.status = None]

\* show; the tracker holds no entry for the document (setTriggerOnNextChange
\* is not called)
show(c, commit, line) ==
    [c EXCEPT !.status = commit, !.show = [commit |-> commit, line |-> line]]

\* refresh(editor) up to its await; blameable is isEditorBlameable(editor)
refresh(c, editor, blameable) ==
    LET c1 == [c EXCEPT !.line = -1]
        c2 == [c1 EXCEPT !.blameable = editor /\ blameable]
    IN  IF ~editor /\ ~c.editor THEN c1
        ELSE IF ~canBlame(c2) \/ ~editor THEN [clear(c2) EXCEPT !.editor = FALSE]
        ELSE [c2 EXCEPT !.editor = TRUE, !.refreshing = @ + 1]

\* updateBlame(line, editor) up to its await
updateBlame(c, line) ==
    IF c.deb.pending THEN c
    ELSE LET c1 == clearLineState(c, line)
         IN  IF canBlame(c1) /\ line >= 0
             THEN [c1 EXCEPT !.calls = Append(@, [line |-> line])]
             ELSE clear(c1)

\* updateBlame after its await, which keeps every result
updateBlameResumes_KeepsSuperseded(c, k, blameLine) ==
    LET c1 == [c EXCEPT !.calls = RemoveAt(@, k), !.commit = blameLine]
    IN  IF blameLine # None THEN show(c1, blameLine, c.calls[k].line) ELSE clear(c1)

\* updateBlame after its await: blameLine is the commit of the blamed line,
\* None when the query found none
updateBlameResumes(c, k, blameLine) ==
    LET pending == c.deb.pending
        commit  == IF canBlame(c) /\ ~pending THEN blameLine ELSE None
        c1      == [c EXCEPT !.calls = RemoveAt(@, k), !.commit = commit]
    IN  IF commit # None THEN show(c1, commit, c.calls[k].line) ELSE clear(c1)

\* the controller as a step starts: the history of the last step is dropped
LineCur == [clc EXCEPT !.show = NoShow, !.race = "none", !.result = None]

LineStep(c, op) ==
    /\ clc' = c
    /\ out' = <<>>
    /\ last' = Last(op, 0, FALSE)
    /\ UNCHANGED <<activeEditor, isDirty, ctx, byDoc, byKey, objs, upd, actDeb, chgDeb,
                   dirtyDeb, imm, lastBlame, cleanHist, flap, gct>>

\* onActiveTextEditorChanged(editor), run by its 50ms debouncer
LineActiveTextEditorChanged(editor, blameable) ==
    /\ budget > 0
    /\ budget' = budget - 1
    /\ clc.refreshing < MaxLineCalls
    /\ IF clc.editor = editor
       THEN LineStep(LineCur, "lineActiveTextEditorChanged")
       ELSE LineStep(refresh(LineCur, editor, blameable), "lineActiveTextEditorChanged")

\* refresh after GitUri.fromUri resolved
RefreshResumes ==
    /\ clc.refreshing > 0
    /\ LineStep(updateBlameDebounced([LineCur EXCEPT !.refreshing = @ - 1, !.uri = TRUE],
                                     clc.sel),
                "refreshResumes")
    /\ UNCHANGED budget

\* onTextEditorSelectionChanged for the tracked editor, up to its await
OnTextEditorSelectionChanged(line) ==
    /\ budget > 0
    /\ budget' = budget - 1
    /\ Len(clc.selecting) < MaxLineCalls
    /\ LET c0 == [LineCur EXCEPT !.sel = line]
       IN  IF ~c0.blameable \/ ~c0.editor \/ line = c0.line
           THEN LineStep(c0, "onTextEditorSelectionChanged")
           ELSE LET c1 == clearLineState(c0, line)
                IN  IF ~c1.uri
                    THEN LineStep([c1 EXCEPT !.selecting = Append(@, line)],
                                  "onTextEditorSelectionChanged")
                    ELSE LineStep(IF canBlame(c1) THEN updateBlameDebounced(c1, line)
                                  ELSE c1,
                                  "onTextEditorSelectionChanged")

\* onTextEditorSelectionChanged after GitUri.fromUri resolved
SelectionResumes(k) ==
    /\ k \in DOMAIN clc.selecting
    /\ LET c1 == [LineCur EXCEPT !.selecting = RemoveAt(@, k), !.uri = TRUE]
       IN  LineStep(IF canBlame(c1) THEN updateBlameDebounced(c1, clc.selecting[k])
                    ELSE c1,
                    "selectionResumes")
    /\ UNCHANGED budget

\* onBlameStateChanged(e), e.blameable = blameable
OnBlameStateChanged(blameable) ==
    /\ budget > 0
    /\ budget' = budget - 1
    /\ IF ~clc.blameable /\ ~blameable
       THEN LineStep(cancelBlame(LineCur), "onBlameStateChanged")
       ELSE LET c1 == [LineCur EXCEPT !.blameable = blameable]
            IN  IF ~canBlame(c1) \/ ~c1.editor
                THEN LineStep(clear(cancelBlame(c1)), "onBlameStateChanged")
                ELSE LineStep(updateBlameDebounced(c1, c1.sel), "onBlameStateChanged")

\* onDirtyStateChanged(e), e.dirty = dirty; blameable is what
\* isEditorBlameable answers in refresh
OnDirtyStateChanged(dirty, blameable) ==
    /\ budget > 0
    /\ budget' = budget - 1
    /\ clc.refreshing < MaxLineCalls
    /\ LET c1 == [LineCur EXCEPT !.considerDirty = dirty]
       IN  IF dirty
           THEN LineStep([clear(c1) EXCEPT !.foo = TRUE], "onDirtyStateChanged")
           ELSE LineStep(refresh([c1 EXCEPT !.foo = FALSE], c1.editor, blameable),
                         "onDirtyStateChanged")

\* the 5000ms debouncer of onDirtyStateChanged fires
ConsiderDirtyExpires ==
    /\ clc.foo
    /\ LineStep([LineCur EXCEPT !.foo = FALSE, !.considerDirty = FALSE],
                "considerDirtyExpires")
    /\ UNCHANGED budget

\* the 250ms debouncer invokes updateBlame with the last arguments
UpdateBlame ==
    /\ clc.deb.pending
    /\ Len(clc.calls) < MaxLineCalls
    /\ LineStep(updateBlame(cancelBlame(LineCur), clc.deb.line), "updateBlame")
    /\ UNCHANGED budget

\* the line-blame query of a suspended updateBlame resolves
UpdateBlameResumes(k, blameLine) ==
    /\ k \in DOMAIN clc.calls
    /\ LineStep([updateBlameResumes(LineCur, k, blameLine) EXCEPT
                    !.race = IF clc.deb.pending THEN "pending"
                             ELSE IF ~canBlame(clc) THEN "cannotBlame"
                             ELSE "none",
                    !.result = blameLine],
                "updateBlameResumes")
    /\ UNCHANGED budget

\* the line-blame query rejects, and updateBlame with it
UpdateBlameFails(k) ==
    /\ k \in DOMAIN clc.calls
    /\ LineStep([LineCur EXCEPT !.calls = RemoveAt(@, k)], "updateBlameFails")
    /\ UNCHANGED budget

-----------------------------------------------------------------------------
(* The specification *)

Init ==
    /\ activeEditor = NoEditor
    /\ isDirty = [d \in Docs |-> FALSE]
    /\ ctx = [revision |-> FALSE, tracked |-> FALSE, blameable |-> FALSE, remote |-> FALSE]
    /\ byDoc = [d \in Docs |-> 0]
    /\ byKey = [k \in Keys |-> 0]
    /\ objs = <<>>
    /\ upd = <<>>
    /\ actDeb = IdleActive
    /\ chgDeb = IdleChange
    /\ dirtyDeb = IdleDirty
    /\ imm = <<>>
    /\ out = <<>>
    /\ last = Last("init", 0, FALSE)
    /\ lastBlame = [d \in Docs |-> "none"]
    /\ cleanHist = NoCleanHist
    /\ flap = FlapZero
    /\ budget = MaxEvents
    /\ gct = NoBroker
    /\ clc = NoLine

Next ==
    \/ \E ed \in Editors \cup {NoEditor} : HostActiveEditorChanged(ed)
    \/ OnActiveTextEditorChanged
    \/ \E d \in Docs, v \in BOOLEAN : HostTextDocumentChanged(d, v)
    \/ OnTextDocumentChanged
    \/ RunImmediate
    \/ DirtyDebounceFires
    \/ \E d \in Docs : OnTextDocumentClosed(d)
    \/ \E d \in Docs : Add(d)
    \/ Clear
    \/ \E a, b \in BOOLEAN : OnConfigurationChanged(a, b)
    \/ \E i \in DOMAIN objs : InitFromUri(i)
    \/ \E i \in DOMAIN objs : \E r \in {repoOf(objs[i].document), None} : InitGetRepository(i, r)
    \/ \E i \in DOMAIN objs : InitFails(i)
    \/ \E k \in DOMAIN upd, r \in BOOLEAN : UpdateIsTracked(k, r)
    \/ \E k \in DOMAIN upd, h \in BOOLEAN : UpdateHasRemote(k, h)
    \/ \E k \in DOMAIN upd : UpdateFails(k)
    \/ \E r \in Repos, b \in BOOLEAN : RepositoryChanged(r, b)
    \/ \E i \in DOMAIN objs : SetBlameFailure(i)
    \/ \E i \in DOMAIN objs : SetState(i)
    \/ \E i \in DOMAIN objs : SetTriggerOnNextChange(i)
    \/ Advance

Spec == Init /\ [][Next]_vars


-----------------------------------------------------------------------------
(* The dirty-state publishing alone: the editors, the document changes, the *)
(* timers; no repository query resolves                                     *)

MaxDirtyEvents == 5

InitDirty ==
    /\ activeEditor = NoEditor
    /\ isDirty = [d \in Docs |-> FALSE]
    /\ ctx = [revision |-> FALSE, tracked |-> FALSE, blameable |-> FALSE, remote |-> FALSE]
    /\ byDoc = [d \in Docs |-> 0]
    /\ byKey = [k \in Keys |-> 0]
    /\ objs = <<>>
    /\ upd = <<>>
    /\ actDeb = IdleActive
    /\ chgDeb = IdleChange
    /\ dirtyDeb = IdleDirty
    /\ imm = <<>>
    /\ out = <<>>
    /\ last = Last("init", 0, FALSE)
    /\ lastBlame = [d \in Docs |-> "none"]
    /\ cleanHist = NoCleanHist
    /\ flap = FlapZero
    /\ budget = MaxDirtyEvents
    /\ gct = NoBroker
    /\ clc = NoLine

NextDirty ==
    \/ \E ed \in Editors \cup {NoEditor} : HostActiveEditorChanged(ed)
    \/ OnActiveTextEditorChanged
    \/ \E d \in Docs, v \in BOOLEAN : HostTextDocumentChanged(d, v)
    \/ OnTextDocumentChanged
    \/ RunImmediate
    \/ DirtyDebounceFires
    \/ \E d \in Docs : OnTextDocumentClosed(d)
    \/ \E i \in DOMAIN objs : SetTriggerOnNextChange(i)
    \/ Advance

SpecDirty == InitDirty /\ [][NextDirty]_vars


-----------------------------------------------------------------------------
(* The TrackedDocuments alone: the store, the repository queries and the    *)
(* collaborators; no document change is reported and no timer runs          *)

MaxDocEvents == 3

InitDoc ==
    /\ activeEditor = NoEditor
    /\ isDirty = [d \in Docs |-> FALSE]
    /\ ctx = [revision |-> FALSE, tracked |-> FALSE, blameable |-> FALSE, remote |-> FALSE]
    /\ byDoc = [d \in Docs |-> 0]
    /\ byKey = [k \in Keys |-> 0]
    /\ objs = <<>>
    /\ upd = <<>>
    /\ actDeb = IdleActive
    /\ chgDeb = IdleChange
    /\ dirtyDeb = IdleDirty
    /\ imm = <<>>
    /\ out = <<>>
    /\ last = Last("init", 0, FALSE)
    /\ lastBlame = [d \in Docs |-> "none"]
    /\ cleanHist = NoCleanHist
    /\ flap = FlapZero
    /\ budget = MaxDocEvents
    /\ gct = NoBroker
    /\ clc = NoLine

NextDoc ==
    \/ \E ed \in Editors \cup {NoEditor} : HostActiveEditorChanged(ed)
    \/ OnActiveTextEditorChanged
    \/ \E d \in Docs : OnTextDocumentClosed(d)
    \/ \E d \in Docs : Add(d)
    \/ Clear
    \/ \E a, b \in BOOLEAN : OnConfigurationChanged(a, b)
    \/ \E i \in DOMAIN objs : InitFromUri(i)
    \/ \E i \in DOMAIN objs : \E r \in {repoOf(objs[i].document), None} : InitGetRepository(i, r)
    \/ \E i \in DOMAIN objs : InitFails(i)
    \/ \E k \in DOMAIN upd, r \in BOOLEAN : UpdateIsTracked(k, r)
    \/ \E k \in DOMAIN upd, h \in BOOLEAN : UpdateHasRemote(k, h)
    \/ \E k \in DOMAIN upd : UpdateFails(k)
    \/ \E r \in Repos, b \in BOOLEAN : RepositoryChanged(r, b)
    \/ \E i \in DOMAIN objs : SetBlameFailure(i)
    \/ \E i \in DOMAIN objs : SetState(i)

SpecDoc == InitDoc /\ [][NextDoc]_vars

-----------------------------------------------------------------------------
(* The GitContextTracker alone: editor changes, repository-set changes and  *)
(* the repository queries of updateContext and updateRemotes                *)

InitRemotes ==
    /\ activeEditor = NoEditor
    /\ isDirty = [d \in Docs |-> FALSE]
    /\ ctx = [revision |-> FALSE, tracked |-> FALSE, blameable |-> FALSE, remote |-> FALSE]
    /\ byDoc = [d \in Docs |-> 0]
    /\ byKey = [k \in Keys |-> 0]
    /\ objs = <<>>
    /\ upd = <<>>
    /\ actDeb = IdleActive
    /\ chgDeb = IdleChange
    /\ dirtyDeb = IdleDirty
    /\ imm = <<>>
    /\ out = <<>>
    /\ last = Last("init", 0, FALSE)
    /\ lastBlame = [d \in Docs |-> "none"]
    /\ cleanHist = NoCleanHist
    /\ flap = FlapZero
    /\ budget = MaxBrokerEvents
    /\ \E t \in [Repos -> BOOLEAN] : gct = [NoBroker EXCEPT !.truth = t]
    /\ clc = NoLine

NextRemotes ==
    \/ \E r \in Repos \cup {None} : BrokerEditorChanged(r)
    \/ BrokerNoEditor
    \/ BrokerGetRepository
    \/ BrokerIsTracked
    \/ BrokerGitChanged
    \/ \E k \in DOMAIN gct.calls : RemotesHasRemote(k)
    \/ \E k \in DOMAIN gct.calls : RemotesGetRepositories(k)
    \/ \E k \in DOMAIN gct.calls : RemotesHasRemotes(k)
    \/ \E k \in DOMAIN gct.calls : RemotesFails(k)

SpecRemotes == InitRemotes /\ [][NextRemotes]_vars

\* GitContextTracker, constructed with no active editor: the constructor has
\* run onConfigurationChanged with the initializing event
InitContext ==
    /\ activeEditor = NoEditor
    /\ isDirty = [d \in Docs |-> FALSE]
    /\ ctx = [revision |-> FALSE, tracked |-> FALSE, blameable |-> FALSE, remote |-> FALSE]
    /\ byDoc = [d \in Docs |-> 0]
    /\ byKey = [k \in Keys |-> 0]
    /\ objs = <<>>
    /\ upd = <<>>
    /\ actDeb = IdleActive
    /\ chgDeb = IdleChange
    /\ dirtyDeb = IdleDirty
    /\ imm = <<>>
    /\ out = <<>>
    /\ last = Last("init", 0, FALSE)
    /\ lastBlame = [d \in Docs |-> "none"]
    /\ cleanHist = NoCleanHist
    /\ flap = FlapZero
    /\ budget = MaxContextEvents
    /\ \E t \in [Docs -> BOOLEAN] :
          gct = onConfigurationChanged([NoBroker EXCEPT !.tracked = t],
                                       TRUE, FALSE, NoEditor)
    /\ clc = NoLine

NextContext ==
    \/ \E i, a, v \in BOOLEAN : ContextConfigurationChanged(i, a, v)
    \/ \E editor \in Editors \cup {NoEditor} : ContextActiveTextEditorChanged(editor)
    \/ \E r \in Repos : ContextRepoChanged(r)
    \/ \E k \in DOMAIN gct.ucs : ContextFromUri(k)
    \/ \E k \in DOMAIN gct.ucs : ContextGetRepository(k)
    \/ \E k \in DOMAIN gct.ucs : ContextIsTracked(k)
    \/ \E k \in DOMAIN gct.ucs : ContextFails(k)
    \/ \E k \in DOMAIN gct.calls : RemotesHasRemote(k)
    \/ \E k \in DOMAIN gct.calls : RemotesGetRepositories(k)
    \/ \E k \in DOMAIN gct.calls : RemotesHasRemotes(k)
    \/ \E k \in DOMAIN gct.calls : RemotesFails(k)

SpecContext == InitContext /\ [][NextContext]_vars

\* The current-line controller, constructed with no active editor
InitLine ==
    /\ activeEditor = NoEditor
    /\ isDirty = [d \in Docs |-> FALSE]
    /\ ctx = [revision |-> FALSE, tracked |-> FALSE, blameable |-> FALSE, remote |-> FALSE]
    /\ byDoc = [d \in Docs |-> 0]
    /\ byKey = [k \in Keys |-> 0]
    /\ objs = <<>>
    /\ upd = <<>>
    /\ actDeb = IdleActive
    /\ chgDeb = IdleChange
    /\ dirtyDeb = IdleDirty
    /\ imm = <<>>
    /\ out = <<>>
    /\ last = Last("init", 0, FALSE)
    /\ lastBlame = [d \in Docs |-> "none"]
    /\ cleanHist = NoCleanHist
    /\ flap = FlapZero
    /\ budget = MaxLineEvents
    /\ gct = NoBroker
    /\ clc = NoLine

NextLine ==
    \/ \E editor, blameable \in BOOLEAN : LineActiveTextEditorChanged(editor, blameable)
    \/ RefreshResumes
    \/ \E line \in Lines : OnTextEditorSelectionChanged(line)
    \/ \E k \in DOMAIN clc.selecting : SelectionResumes(k)
    \/ \E blameable \in BOOLEAN : OnBlameStateChanged(blameable)
    \/ \E dirty, blameable \in BOOLEAN : OnDirtyStateChanged(dirty, blameable)
    \/ ConsiderDirtyExpires
    \/ UpdateBlame
    \/ \E k \in DOMAIN clc.calls, blameLine \in Commits \cup {None} :
          UpdateBlameResumes(k, blameLine)
    \/ \E k \in DOMAIN clc.calls : UpdateBlameFails(k)

SpecLine == InitLine /\ [][NextLine]_vars

-----------------------------------------------------------------------------
(* Claims *)

Resumes == {"updateIsTracked", "updateHasRemote"}

\* C1 (as claimed): a repository query that completes after a reset of its
\* document is not applied: the step that resumes the update leaves the
\* document's tracked and hasRemote flags as they were and publishes nothing.
C1_StaleResultRejected ==
    [][(last'.op \in Resumes /\ last'.stale)
         => /\ objs'[last'.obj].isTracked = objs[last'.obj].isTracked
            /\ objs'[last'.obj].hasRemotes = objs[last'.obj].hasRemotes
            /\ out' = <<>>]_vars

\* C2 (as claimed): a continuation of initialize or update that resumes on a
\* disposed document changes neither its tracked nor its hasRemote flag,
\* writes no context flag and fires no blame-state-changed event.
C2_DisposedNeverMutated ==
    [][(last'.op \in Resumes \cup {"initFromUri", "initGetRepository"}
          /\ objs[last'.obj].disposed)
         => /\ objs'[last'.obj].isTracked = objs[last'.obj].isTracked
            /\ objs'[last'.obj].hasRemotes = objs[last'.obj].hasRemotes
            /\ out' = <<>>]_vars

\* C3 (as claimed): the store holds at most one live TrackedDocument per
\* normalized key, and every document that has an entry under its identity
\* has the same instance under its normalized key.
C3_SingleInstance ==
    /\ \A k \in Keys :
         Cardinality({i \in mapValues(Cur) : objs[i].key = k /\ ~objs[i].disposed}) <= 1
    /\ \A d \in Docs : byDoc[d] # 0 => byDoc[d] = byKey[toStateKey(fsPath(d))]

\* C4: isBlameable is tracked and not blameFailed in every state of every
\* TrackedDocument, suspended updates included, and every blameable value a
\* TrackedDocument publishes (context flag or event) is that derived value.
C4_DerivedFlagPurity ==
    /\ \A i \in DOMAIN objs :
         isBlameable(objs[i]) = (objs[i].isTracked /\ ~objs[i].blameFailed)
    /\ \A j \in DOMAIN out :
         (out[j].obj # 0 /\ out[j].flag = "blameable")
           => out[j].v = (objs[out[j].obj].isTracked /\ ~objs[out[j].obj].blameFailed)

\* C4 witness: a document with a recorded blame failure that is still tracked,
\* while an update of it is suspended at its query.
C4_Witness ==
    \E k \in DOMAIN upd :
        objs[upd[k].obj].blameFailed /\ objs[upd[k].obj].isTracked

\* C5 (as claimed): whatever a TrackedDocument publishes (context flags,
\* blame-state-changed) it publishes for the document of the active editor.
C5_PublishedForActiveOnly ==
    \A j \in DOMAIN out :
        out[j].obj # 0 => out[j].document = activeEditor.document


\* C10 (as claimed): a blame-state-changed event that is not forced carries
\* a value different from the one last published for its document.
C10_OnlyOnChange ==
    [][\A j \in DOMAIN out' :
          (out'[j].t = "blame" /\ ~out'[j].forced)
            => ToStr(out'[j].v) # lastBlame[out'[j].document]]_vars

-----------------------------------------------------------------------------
(* Dirty-state claims, checked under SpecDirty *)

BecomesDirty(i) ==
    /\ last'.op = "onTextDocumentChanged"
    /\ i # 0
    /\ objs'[i].dirty
    /\ (i \notin DOMAIN objs \/ ~objs[i].dirty)
    /\ activeEditor.document = objs'[i].document

\* C6 (as claimed): with D active, the tick scheduled for D becoming dirty
\* publishes dirty-state-changed{D,true}.
C6_DirtyImmediacy ==
    (last.op = "runImmediate" /\ activeEditor.document = last.editor.document)
        => out # <<>>

C6_Step ==
    /\ BecomesDirty(last'.obj)
         => /\ imm' = Append(imm, imm'[Len(imm')])
            /\ imm'[Len(imm')].editor = activeEditor
            /\ imm'[Len(imm')].document = objs'[last'.obj].document
            /\ imm'[Len(imm')].dirty
            /\ dirtyDeb' = dirtyDeb
    /\ last'.op = "runImmediate"
         => /\ ~dirtyDeb'.pending
            /\ last'.cancelled = dirtyDeb.pending
            /\ out' = IF activeEditor' = last'.editor
                        THEN <<DirtyEvent(last'.editor, last'.editor.document, TRUE)>>
                        ELSE <<>>
    /\ imm' # <<>> => (Len(imm') = 1 /\ ~(chgDeb'.pending /\ chgDeb'.rem = 0))
    /\ dirtyDeb'.pending => ~dirtyDeb'.dirty

\* C6 (amended): a tracked (file) document D becoming dirty while active is
\* scheduled on the next tick for the active editor, never through the 250ms
\* debouncer;
\* the tick runs before any later dirty-state notification is handled,
\* cancels a pending debounced publish whatever the active editor is, and
\* publishes dirty-state-changed{D,true} exactly when the active editor at
\* the tick is the editor the event was created for.
C6_DirtyImmediacyAmended == [][C6_Step]_vars

\* C6 witness: a tick that cancelled a pending clean publish and published
\* the dirty event.
C6_Witness ==
    /\ last.op = "runImmediate"
    /\ last.cancelled
    /\ out # <<>>

\* C7: dirty-state-changed{D,false} is published only by the debouncer, when
\* 250ms have passed since the last clean notification and no becoming-dirty
\* tick ran in between; a tick scheduled inside the window runs inside it
\* and leaves no clean publish pending.
C7_CleanDebounce ==
    /\ \A j \in DOMAIN out :
         (out[j].t = "dirty" /\ ~out[j].v)
           => /\ last.op = "dirtyDebounceFires"
              /\ cleanHist.since >= DirtyDelay
              /\ ~cleanHist.tick
    /\ \A j \in DOMAIN imm :
         imm[j].inWindow => (dirtyDeb.pending /\ dirtyDeb.rem > 0)
    /\ last.op = "runImmediate" => ~dirtyDeb.pending

\* C7 witness: after a flap that discarded a clean publish, a later clean
\* notification is published once its 250ms have passed.
C7_Witness ==
    /\ cleanHist.flapped
    /\ last.op = "dirtyDebounceFires"
    /\ out # <<>>
    /\ ~out[1].v

FlapDone ==
    /\ ~flap.void
    /\ flap.flips = 3
    /\ ~chgDeb.pending
    /\ imm = <<>>

\* C8 (as claimed): three transitions false->true->false->true of the active,
\* initially clean document within 250ms publish exactly one
\* dirty-state-changed{D,true}, no {D,false}, and leave no debounced publish.
C8_ThreeFlips ==
    FlapDone => (flap.pubT = 1 /\ flap.pubF = 0 /\ ~dirtyDeb.pending)

\* C8 (amended): for a file document D, the three transitions publish one
\* dirty-state-changed{D,true} per becoming-dirty transition the change
\* handler sees (two when it handles the transitions one by one, one when its
\* 50ms debouncer merges them), no {D,false}, and leave no debounced publish
\* pending.
C8_ThreeFlipsAmended ==
    (FlapDone /\ scheme(activeEditor.document) = "file")
             => /\ flap.pubT = flap.handled
                /\ flap.handled \in {1, 2}
                /\ flap.pubF = 0
                /\ ~dirtyDeb.pending

\* C8 witness: the three transitions handled one by one, two publishes.
C8_Witness == FlapDone /\ flap.pubT = 2

\* C9: a dirty-state-changed event is published for editor E only at a
\* moment when E is the active editor, on both publish paths.
C9_ActiveEditorAtCallback ==
    \A j \in DOMAIN out : out[j].t = "dirty" => out[j].editor = activeEditor

\* C9 witness: a deferred callback that found another editor active and
\* published nothing.
C9_Witness ==
    /\ last.op \in {"runImmediate", "dirtyDebounceFires"}
    /\ last.editor # activeEditor
    /\ out = <<>>


-----------------------------------------------------------------------------
(* TrackedDocument claims, checked under SpecDoc *)

BlameEventsFor(pubs, d) ==
    {j \in DOMAIN pubs : pubs[j].t = "blame" /\ pubs[j].document = d}

\* C11 (as claimed): when the initial isTracked query of a document opened
\* while active completes (no reset since, not disposed), blame-state-changed
\* is fired exactly once for it with its blameable value, and the
\* active-is-blameable context flag is set to that value.
C11_FirstPublish ==
    [][(/\ last'.op = "updateIsTracked"
        /\ last'.call.init
        /\ last'.call.isActive
        /\ ~last'.stale
        /\ ~objs[last'.obj].disposed)
         => LET o == objs'[last'.obj]
            IN  /\ Cardinality(BlameEventsFor(out', o.document)) = 1
                /\ \A j \in BlameEventsFor(out', o.document) : out'[j].v = isBlameable(o)
                /\ ctx'.blameable = isBlameable(o)]_vars

ActiveObj == IF activeEditor = NoEditor THEN 0 ELSE byDoc[activeEditor.document]

\* the steps that run update, setBlameFailure or reset
FlagOps ==
    {"updateIsTracked", "updateHasRemote", "setBlameFailure", "repositoryChanged",
     "onConfigurationChanged", "onTextDocumentChanged"}

\* C12 (as claimed): a step of update, setBlameFailure or reset that changes
\* isTracked, isRevision, hasRemotes or isBlameable of the active document's
\* TrackedDocument leaves the matching context flag equal to the new value.
C12_ContextFollowsFlags ==
    [][(/\ last'.op \in FlagOps
        /\ ActiveObj # 0
        /\ ~actDeb.pending
        /\ ActiveObj' = ActiveObj
        /\ activeEditor' = activeEditor)
         => LET o == objs[ActiveObj]
                n == objs'[ActiveObj]
            IN  /\ n.isTracked # o.isTracked => ctx'.tracked = n.isTracked
                /\ isRevision(n) # isRevision(o) => ctx'.revision = isRevision(n)
                /\ n.hasRemotes # o.hasRemotes => ctx'.remote = n.hasRemotes
                /\ isBlameable(n) # isBlameable(o) => ctx'.blameable = isBlameable(n)]_vars

\* C13 (as claimed): add never replaces the entry of a key that is present,
\* and constructs a TrackedDocument only for a document whose identity and
\* key are both absent, indexing it under both.
C13_AddIdempotent ==
    [][last'.op = "add"
         => /\ \A k \in Keys : byKey[k] # 0 => byKey'[k] = byKey[k]
            /\ \A d \in Docs : byDoc[d] # 0 => byDoc'[d] = byDoc[d]
            /\ Len(objs') > Len(objs)
                 => \E d \in Docs :
                        /\ byDoc[d] = 0
                        /\ byKey[toStateKey(fsPath(d))] = 0
                        /\ byDoc'[d] = Len(objs')
                        /\ byKey'[toStateKey(fsPath(d))] = Len(objs')]_vars


\* C14 (as claimed): disposing a TrackedDocument a second time changes
\* nothing, a dispose fires no event, and an update that was in flight when
\* its document was disposed fires no blame-state-changed event afterwards.
C14_DisposalIdempotence ==
    [][/\ \A i \in DOMAIN objs : dispose(dispose(Cur, i), i) = dispose(Cur, i)
       /\ last'.op \in {"onTextDocumentClosed", "clear"} => out' = <<>>
       /\ (last'.op \in Resumes /\ objs[last'.obj].disposed)
            => \A j \in DOMAIN out' : out'[j].t # "blame"]_vars

\* C15 (as claimed): a dirty-state publish (debounced or next-tick) whose
\* document was closed after it was scheduled publishes nothing when it runs.
C15_CloseCancelsDebounce ==
    [][/\ (last'.op = "dirtyDebounceFires" /\ dirtyDeb.closed) => out' = <<>>
       /\ (last'.op = "runImmediate" /\ Head(imm).closed) => out' = <<>>]_vars

\* C18 (as claimed): when a repository query of a TrackedDocument fails, the
\* document ends with isTracked false and hasRemotes false.
C18_FailClosed ==
    [][last'.op \in {"initFails", "updateFails"}
         => /\ ~objs'[last'.obj].isTracked
            /\ ~objs'[last'.obj].hasRemotes]_vars

\* C19 (as claimed): once the change handler has nothing scheduled, every
\* notification that changed a file document's dirty status has been applied
\* to the dirty flag of that document's TrackedDocument.
C19_NoTransitionDropped ==
    ~chgDeb.pending => chgDeb.unseen = {}


\* C16 (as claimed): setBlameFailure sets blameFailed and leaves isTracked
\* alone; called on a blameable active document it leads to one
\* blame-state-changed event with blameable false, published when the update
\* it starts gets the answer of its query; called on a document that is not
\* blameable or not active it publishes nothing and starts no update.
C16_BlameFailurePublishes ==
    [][/\ last'.op = "setBlameFailure"
            => LET o == objs[last'.obj]
                   n == objs'[last'.obj]
               IN  /\ n.blameFailed
                   /\ n.isTracked = o.isTracked
                   /\ out' = <<>>
                   /\ Len(upd') = Len(upd) + (IF isBlameable(o) /\ isActive(o) THEN 1 ELSE 0)
       /\ (last'.op \in {"updateIsTracked", "updateFails"}
             /\ last'.call.force /\ last'.call.pc = "isTracked")
            => LET d == objs[last'.obj].document
               IN  /\ Cardinality(BlameEventsFor(out', d)) = 1
                   /\ \A j \in BlameEventsFor(out', d) : ~out'[j].v]_vars

\* C17: reset clears blameFailed whether or not state was cached and leaves
\* isTracked alone, so that isBlameable equals isTracked after it; a step
\* that clears a recorded blame failure never changes isTracked.
C17_ResetClearsFailure ==
    [][/\ \A i \in DOMAIN objs :
            LET R == reset(Cur, i).objs[i]
            IN  /\ ~R.blameFailed
                /\ R.isTracked = objs[i].isTracked
                /\ isBlameable(R) = objs[i].isTracked
       /\ \A i \in DOMAIN objs :
            (objs[i].blameFailed /\ ~objs'[i].blameFailed)
              => /\ objs'[i].isTracked = objs[i].isTracked
                 /\ isBlameable(objs'[i]) = objs[i].isTracked]_vars

\* C17 witness: a reset by a configuration or repository change has cleared
\* the failure of a tracked document whose forced update is still in flight.
C17_Witness ==
    /\ last.op \in {"onConfigurationChanged", "repositoryChanged"}
    /\ \E k \in DOMAIN upd :
         /\ upd[k].force
         /\ upd[k].stale
         /\ objs[upd[k].obj].isTracked
         /\ ~objs[upd[k].obj].blameFailed
         /\ ~objs[upd[k].obj].disposed

\* C20: a disposed TrackedDocument has no repository-change subscription,
\* from the dispose step on and also when initialize resumes after the
\* dispose; a repository change delivered afterwards neither resets it nor
\* starts an update for it.
C20_DisposeReleasesSubscription ==
    [][/\ \A i \in DOMAIN objs' : objs'[i].disposed => ~objs'[i].sub
       /\ last'.op \in {"repositoryChanged", "refsChanged"}
            => \A i \in DOMAIN objs :
                 objs[i].disposed
                   => /\ objs'[i] = objs[i]
                      /\ \A k \in DOMAIN upd' :
                           upd'[k].obj = i => (k \in DOMAIN upd /\ upd'[k] = upd[k])]_vars

\* C20 witness: the repository of a disposed document, which had subscribed
\* to it, has fired a change.
C20_Witness ==
    /\ last.op = "repositoryChanged"
    /\ \E i \in DOMAIN objs :
         /\ objs[i].disposed
         /\ objs[i].repo \in Repos
         /\ \A j \in DOMAIN objs : j # i => objs[j].repo \notin Repos


-----------------------------------------------------------------------------
(* Store claims *)

\* C21 (as claimed): when the host reports a document with a store entry
\* closed, its TrackedDocument is disposed, its identity entry and its key
\* entry are removed and no entry that holds another TrackedDocument changes;
\* when the document has no entry, the store and every TrackedDocument stay
\* as they were.
C21_RemoveOnClose ==
    [][last'.op = "onTextDocumentClosed"
         => LET i == last'.obj
            IN  IF i = 0
                THEN byDoc' = byDoc /\ byKey' = byKey /\ objs' = objs /\ upd' = upd
                ELSE /\ objs'[i].disposed
                     /\ byDoc'[objs[i].document] = 0
                     /\ byKey'[objs[i].key] = 0
                     /\ \A d \in Docs : byDoc[d] # i => byDoc'[d] = byDoc[d]
                     /\ \A k \in Keys : byKey[k] # i => byKey'[k] = byKey[k]
                     /\ \A j \in DOMAIN objs : j # i => objs'[j] = objs[j]]_vars

\* the flags of a TrackedDocument that a reset leaves alone
KeptByReset(o) == <<o.disposed, o.dirty, o.isTracked, o.hasRemotes, o.trigger, o.sub>>

\* C22: a configuration change that is not the initializing one and changes
\* blame.ignoreWhitespace or advanced.caching.enabled clears the cached state
\* and the blame failure of every TrackedDocument of the store, disposes
\* none, keeps the store entries and every document's disposed, dirty,
\* tracked, hasRemote and trigger flags, publishes nothing and starts no
\* query; an initializing or unrelated change leaves everything as it was.
C22_ResetAllKeepsDocuments ==
    [][/\ OnConfigurationChanged(FALSE, TRUE)
            => /\ byDoc' = byDoc
               /\ byKey' = byKey
               /\ DOMAIN objs' = DOMAIN objs
               /\ Len(upd') = Len(upd)
               /\ out' = <<>>
               /\ \A i \in DOMAIN objs :
                    /\ KeptByReset(objs'[i]) = KeptByReset(objs[i])
                    /\ i \in mapValues(Cur) => (~objs'[i].state /\ ~objs'[i].blameFailed)
                    /\ i \notin mapValues(Cur) => objs'[i] = objs[i]
       /\ (\E a, b \in BOOLEAN : (a \/ ~b) /\ OnConfigurationChanged(a, b))
            => /\ byDoc' = byDoc
               /\ byKey' = byKey
               /\ objs' = objs
               /\ upd' = upd
               /\ out' = <<>>]_vars

\* C22 witness: a configuration change has reset two live TrackedDocuments of
\* the store while an update of each was suspended at its query.
C22_Witness ==
    /\ last.op = "onConfigurationChanged"
    /\ Cardinality(mapValues(Cur)) = 2
    /\ \A i \in mapValues(Cur) :
         /\ ~objs[i].disposed
         /\ \E k \in DOMAIN upd : upd[k].obj = i /\ upd[k].stale

TriggerSettled(d) ==
    (scheme(d) = "file" /\ byDoc[d] # 0 /\ ~chgDeb.pending)
      => /\ chgDeb.expect[d] >= 2 => ~objs[byDoc[d]].trigger
         /\ chgDeb.expect[d] = 3 => objs[byDoc[d]].dirty = isDirty[d]

\* C24 (as claimed): a run of the change handler for a file document whose
\* trigger flag is set clears the flag and keeps its dirty flag, otherwise it
\* makes the dirty flag the host's isDirty; and a flag set by
\* setTriggerOnNextChange is cleared by the first change notification for the
\* document that follows, the second one setting the dirty flag to the
\* host's isDirty.
C24_OneShotTrigger ==
    [][/\ (last'.op = "onTextDocumentChanged" /\ last'.obj \in DOMAIN objs)
            => LET o == objs[last'.obj]
                   n == objs'[last'.obj]
               IN  /\ ~n.trigger
                   /\ n.dirty = IF o.trigger THEN o.dirty ELSE isDirty[o.document]
       /\ \A d \in Docs : TriggerSettled(d)']_vars

\* C25 (as claimed): a run of the change handler fires no blame-state-changed
\* event and starts no query; when it runs after an edit of the active file
\* document A that made it dirty, it schedules dirty-state-changed{A,true}
\* for the next tick, and the tick publishes it if A's editor is still the
\* active one.
C25_EditPublishesDirtyOnly ==
    [][/\ last'.op = "onTextDocumentChanged"
            => /\ \A j \in DOMAIN out' : out'[j].t # "blame"
               /\ upd' = upd
               /\ \A i \in DOMAIN objs : objs'[i].isTracked = objs[i].isTracked
       /\ (/\ last'.op = "onTextDocumentChanged"
           /\ activeEditor # NoEditor
           /\ activeEditor.document \in chgDeb.whileActive
           /\ isDirty[activeEditor.document])
            => /\ Len(imm') = Len(imm) + 1
               /\ imm'[Len(imm')].document = activeEditor.document
               /\ imm'[Len(imm')].dirty
       /\ (last'.op = "runImmediate" /\ activeEditor = Head(imm).editor)
            => out' = <<DirtyEvent(Head(imm).editor, Head(imm).document, TRUE)>>]_vars

-----------------------------------------------------------------------------
(* Repository claims, checked under SpecDoc *)

\* the TrackedDocuments whose onRepositoryChanged runs when repo fires
SubscribersOf(repo) == {i \in DOMAIN objs : objs[i].sub /\ objs[i].repo = repo}

\* C26: a repository change event that reports no structural change leaves
\* every TrackedDocument, every suspended update and the context as they
\* were and publishes nothing; a structural one resets each subscribed
\* document (state and blame failure cleared, the other flags kept) and
\* starts one update of it, not forced and not initializing, whose isTracked
\* answer becomes the tracked flag and which asks the repository for
\* hasRemote only when the document is tracked and has a repository
\* (hasRemote is false otherwise); documents not subscribed are untouched.
C26_RepositoryChangeFilter ==
    [][/\ \A r \in Repos :
            RepositoryChanged(r, FALSE)
              => objs' = objs /\ upd' = upd /\ out' = <<>> /\ ctx' = ctx
       /\ \A r \in Repos :
            RepositoryChanged(r, TRUE)
              => /\ out' = <<>>
                 /\ ctx' = ctx
                 /\ DOMAIN objs' = DOMAIN objs
                 /\ Len(upd') = Len(upd) + Cardinality(SubscribersOf(r))
                 /\ \A k \in DOMAIN upd :
                      upd'[k] = IF upd[k].obj \in SubscribersOf(r)
                                THEN [upd[k] EXCEPT !.stale = TRUE] ELSE upd[k]
                 /\ \A i \in DOMAIN objs :
                      IF i \in SubscribersOf(r)
                      THEN /\ ~objs'[i].state
                           /\ ~objs'[i].blameFailed
                           /\ KeptByReset(objs'[i]) = KeptByReset(objs[i])
                           /\ \E k \in DOMAIN upd' \ DOMAIN upd :
                                upd'[k] = [obj |-> i, pc |-> "isTracked",
                                           isActive |-> isActive(objs[i]),
                                           force |-> FALSE, was |-> objs[i].isTracked,
                                           init |-> FALSE, stale |-> FALSE]
                      ELSE objs'[i] = objs[i]
       /\ last'.op = "updateIsTracked"
            => LET n == objs'[last'.obj]
               IN  IF n.isTracked /\ n.repo \in Repos
                   THEN \E k \in DOMAIN upd' :
                          upd'[k].obj = last'.obj /\ upd'[k].pc = "hasRemote"
                   ELSE ~n.hasRemotes /\ Len(upd') = Len(upd) - 1]_vars

\* C26 witness: a structural repository change has started a fresh update of
\* a subscribed document that was tracked.
C26_Witness ==
    /\ last.op = "repositoryChanged"
    /\ \E k \in DOMAIN upd :
         /\ ~upd[k].init /\ ~upd[k].force /\ ~upd[k].stale
         /\ upd[k].pc = "isTracked"
         /\ upd[k].was
         /\ objs[upd[k].obj].sub
         /\ objs[upd[k].obj].isTracked

-----------------------------------------------------------------------------
(* GitContextTracker claims, checked under SpecRemotes *)

\* C27 (as claimed): when a run of updateRemotes has completed, no query has
\* failed and no updateContext or updateRemotes call is suspended,
\* active-has-remote says
\* whether the repository of the active document (the context repository)
\* has a remote, and has-any-remote says whether that repository or another
\* known repository has one.
C27_RemoteAggregation ==
    (/\ last.op = "updateRemotesDone"
     /\ ~gct.failed
     /\ gct.uc.pc = "idle"
     /\ gct.calls = <<>>)
      => /\ gct.ActiveHasRemote = (gct.repo # None /\ gct.truth[gct.repo])
         /\ gct.HasRemotes = (\E r \in Repos : gct.truth[r])

-----------------------------------------------------------------------------
(* The debouncer, checked under SpecDirty on _dirtyStateChangedDebounced *)

-----------------------------------------------------------------------------
(* Lookup claims *)

Chars == {"/", "\\", "A", "a", "B", "b"}

\* the file names that differ from p only in letter case or path separator
SameFile(p) == {q \in [DOMAIN p -> Chars] : toStateKey(q) = toStateKey(p)}

\* C29 (as claimed): for a document that has an entry, get(document),
\* get(its uri) and get(any file name that differs from its path only in
\* letter case or path separator) return the same TrackedDocument, and has
\* is true exactly when get is defined.
C29_LookupNormalizes ==
    /\ \A d \in Docs :
         get(Cur, d) # 0
           => /\ getByFileName(Cur, fsPath(d)) = get(Cur, d)
              /\ \A q \in SameFile(fsPath(d)) : getByFileName(Cur, q) = get(Cur, d)
    /\ \A d \in Docs :
         /\ has(Cur, d) = (get(Cur, d) # 0)
         /\ \A q \in SameFile(fsPath(d)) :
              hasByFileName(Cur, q) = (getByFileName(Cur, q) # 0)

-----------------------------------------------------------------------------
(* Lifecycle claims, checked under SpecDoc *)

\* the lifecycle state of a TrackedDocument: Initializing (1) while
\* initialize is suspended or has failed, Ready (2) once initialize has
\* completed, Disposed (3); Uninitialized (0) lasts only inside the
\* constructor, which runs initialize up to its first await
Lifecycle(o) ==
    IF o.disposed THEN 3
    ELSE IF o.ipc = "done" THEN 2
    ELSE 1

\* C30: the lifecycle of every TrackedDocument only moves forward: a new one
\* is Initializing, no step takes one to an earlier state, a disposed one
\* stays disposed whatever event, reset or resuming continuation follows,
\* and a close or clear leaves the documents it removes Disposed.
C30_LifecycleForward ==
    [][/\ \A i \in DOMAIN objs' :
            IF i \in DOMAIN objs
            THEN /\ Lifecycle(objs'[i]) >= Lifecycle(objs[i])
                 /\ objs[i].disposed => objs'[i].disposed
            ELSE Lifecycle(objs'[i]) = 1
       /\ DOMAIN objs \subseteq DOMAIN objs'
       /\ \A i \in DOMAIN objs : reset(Cur, i).objs[i].disposed = objs[i].disposed
       /\ last'.op \in {"onTextDocumentClosed", "clear"}
            => \A i \in mapValues(Cur) \ mapValues(Cur') : Lifecycle(objs'[i]) = 3]_vars

\* C30 witness: an update has resumed on a document that was Ready when it
\* was disposed, and the document is still Disposed.
C30_Witness ==
    /\ last.op \in Resumes
    /\ objs[last.obj].disposed
    /\ objs[last.obj].repo \in Repos
    /\ objs[last.obj].ipc = "done"

(***************************************************************************)
(* Closed documents and pending notifications                              *)
(***************************************************************************)

\* the store holds document d: an entry under its identity or, under its
\* state key, an entry made for it
Holds(d) ==
    \/ byDoc[d] # 0
    \/ LET k == toStateKey(fsPath(d))
       IN  byKey[k] # 0 /\ objs[byKey[k]].document = d

\* C32: once the host has reported a document closed, and has reported no
\* later open, edit or activation of it, the store holds no entry for it
\* under either index and no TrackedDocument of it that is not disposed,
\* also when a debounced notification for it was pending at the close.
C32_ClosedStaysRemoved ==
    \A d \in chgDeb.gone :
        /\ ~Holds(d)
        /\ \A i \in mapValues(Cur) : objs[i].document = d => objs[i].disposed

(***************************************************************************)
(* Quiescent states of a TrackedDocument                                   *)
(***************************************************************************)

\* initialize or an update of TrackedDocument i is suspended at a query
InFlight(i) ==
    \/ objs[i].ipc \in {"fromUri", "getRepo"}
    \/ \E k \in DOMAIN upd : upd[k].obj = i

\* the context flags equal the flags of TrackedDocument o
FlagsPublished(c, o) ==
    /\ c.revision = isRevision(o)
    /\ c.tracked = o.isTracked
    /\ c.blameable = isBlameable(o)
    /\ c.remote = o.hasRemotes

\* C33: whenever a document is the active one (the store has handled its
\* activation) and neither initialize nor an update of its TrackedDocument
\* is in flight, the four context flags equal its isRevision, isTracked,
\* isBlameable and hasRemotes, also when it became active while an update
\* started when it was inactive was awaiting its query.  Stated at the
\* steps that reach such a state: a query of the active document's update
\* resolves and leaves nothing of the document in flight.
C33_QuiescentConsistency ==
    [][(/\ last'.op \in {"updateIsTracked", "updateHasRemote"}
        /\ ActiveObj' # 0
        /\ last'.obj = ActiveObj'
        /\ ~actDeb'.pending
        /\ ~InFlight(ActiveObj)')
         => FlagsPublished(ctx', objs'[ActiveObj'])]_vars

\* C34: whenever no initialize or update of a TrackedDocument is in flight,
\* its hasRemotes implies its isTracked, also after two overlapping updates
\* whose isTracked and hasRemote queries completed out of issue order.
C34_RemotesImplyTracked ==
    \A i \in DOMAIN objs :
        ~InFlight(i) => (objs[i].hasRemotes => objs[i].isTracked)

(***************************************************************************)
(* Ordering of the dirty-state publishes                                   *)
(***************************************************************************)

\* C35: once fireDocumentDirtyStateChanged has handled a becoming-dirty
\* notification for the active document, no dirty-state-changed{D,false}
\* that originates from an earlier clean notification is published: no
\* clean publish for D happens while a next-tick callback scheduled for D
\* becoming dirty has yet to run (the callback cancels the debouncer).
C35_NoStaleCleanPublish ==
    [][\A j \in DOMAIN out' :
          (out'[j].t = "dirty" /\ ~out'[j].v)
            => \A m \in DOMAIN imm : imm[m].document # out'[j].document]_vars

\* The timers and the next-tick queue of the host always run what is due:
\* a debounced handler whose delay has passed, a scheduled callback, and
\* the passing of time itself.
FairDirty ==
    /\ WF_vars(OnActiveTextEditorChanged)
    /\ WF_vars(OnTextDocumentChanged)
    /\ WF_vars(RunImmediate)
    /\ WF_vars(DirtyDebounceFires)
    /\ WF_vars(Advance)

SpecDirtyFair == InitDirty /\ [][NextDirty]_vars /\ FairDirty

\* the last dirty-state-changed published for document d, if any, carries
\* the dirty flag of its TrackedDocument
DirtyConverged(d) ==
    (/\ activeEditor.document = d
     /\ byDoc[d] # 0
     /\ cleanHist.published[d] # "none")
      => cleanHist.published[d] = ToStr(objs[byDoc[d]].dirty)

\* C36: if a document stays active and no further host events arrive, the
\* dirty value of the last dirty-state-changed published for it eventually
\* equals the dirty flag of its TrackedDocument, also when the shared
\* clean-publish debouncer was re-armed or cancelled for another document
\* while its clean publish was pending.
C36_DirtyConvergence == \A d \in Docs : <>[]DirtyConverged(d)

(***************************************************************************)
(* CurrentLineController: superseded line-blame results                    *)
(***************************************************************************)

\* C31: a line-blame result that arrives while a newer debounced update is
\* pending, or after the controller stopped being able to blame (not
\* blameable, or considered dirty), is never shown: show is not called and
\* the current line's commit is cleared.
C31_SupersededDiscarded ==
    [][(/\ last'.op = "updateBlameResumes"
        /\ clc.deb.pending \/ ~canBlame(clc))
         => /\ clc'.show = NoShow
            /\ clc'.commit = None
            /\ clc'.status = None]_vars

\* C31 witness: a query that found a commit resumed while a newer update was
\* pending, and show was not called.
C31_Witness ==
    /\ last.op = "updateBlameResumes"
    /\ clc.race = "pending"
    /\ clc.result \in Commits
    /\ clc.show = NoShow

(***************************************************************************)
(* GitContextTracker: subscriptions, context and listeners                 *)
(***************************************************************************)

\* the live repository-change subscriptions of the tracker
LiveTotal == liveSubscriptions(gct, "r1") + liveSubscriptions(gct, "r2")

\* C37: the tracker holds at most one live repository-change subscription
\* at any time, and (once its updateContext calls have completed) it is to
\* the repository of the active editor's document: the previous one is
\* released whenever the active document changes, also when two
\* updateContext calls overlap across their repository lookups.
C37_SingleRepoSubscription ==
    /\ LiveTotal <= 1
    /\ (gct.ucs = <<>> /\ ~gct.failed)
         => \A r \in Repos :
              liveSubscriptions(gct, r) > 0
                => (gct.editor # NoEditor /\ r = repoOf(gct.editor.document))

\* C38: after all in-flight updateContext calls have completed (none
\* failed), the recorded editor, uri and repository and the published
\* revision, tracked and blameable flags are those of the editor passed to
\* the most recently started updateContext call, whatever the order in
\* which the calls' queries completed.
C38_LastStartedWins ==
    (gct.ucs = <<>> /\ ~gct.failed)
      => LET e == gct.started
         IN  /\ gct.editor = e
             /\ gct.uri = e.document
             /\ gct.repo = (IF e = NoEditor THEN None ELSE repoOf(e.document))
             /\ gct.flags.revision = ToStr(e # NoEditor /\ hasSha(e.document))
             /\ gct.flags.tracked = ToStr(e # NoEditor /\ gct.tracked[e.document])
             /\ gct.flags.blameable = gct.flags.tracked

\* C39: after a configuration change that is initializing or affects
\* git.enabled, the git-enabled context flag equals the configured value and
\* the set of host-event listeners is registered exactly once when git is
\* enabled and not at all when it is disabled; a change that does not
\* affect git.enabled leaves the flag and the listeners as they were.
C39_ListenersFollowEnabled ==
    [][/\ last'.op = "contextConfigurationChanged"
            => /\ gct'.Enabled = ToStr(gct'.configured)
               /\ gct'.listeners = (IF gct'.configured THEN 1 ELSE 0)
       /\ last'.op = "contextConfigurationOther"
            => /\ gct'.Enabled = gct.Enabled
               /\ gct'.listeners = gct.listeners
               /\ gct'.configured = gct.configured]_vars

\* C39 witness: git was disabled by a configuration change: the flag is
\* false and no listener is registered.
C39_Witness ==
    /\ last.op = "contextConfigurationChanged"
    /\ ~gct.configured
    /\ gct.Enabled = "false"
    /\ gct.listeners = 0

====
